---- MODULE Spec2Model ----
(***************************************************************************)
(* Model of the thor manager orchestration core (velumlabs/thor):          *)
(*   - the manager registry of the Engine (WithManagers, WithManagerOrder, *)
(*     AddManager) and engine construction (New),                          *)
(*   - the two-phase pipeline (Engine.Process, Engine.PostProcess),        *)
(*   - the shared State object the managers write to.                      *)
(***************************************************************************)
EXTENDS Integers, Sequences, FiniteSets, TLC

\* ------------------------------------------------------------------------
\* Bounds of the model
\* ------------------------------------------------------------------------
\* longest manager list handed to WithManagers / held by the engine
MaxManagers == 3
\* longest identifier list handed to WithManagerOrder
MaxOrder == 2
\* most managers registered when the concurrent Process phase is explored
MaxWorkers == 2

\* the nil pointer / the absent value
Nil == "nil"

\* ------------------------------------------------------------------------
\* Managers: a manager object answers GetID() and GetDependencies()
\* ------------------------------------------------------------------------
Mgr(i, d) == [id |-> i, deps |-> d]

\* manager objects used by the registry specification
ManagerPool ==
    { Mgr("a", <<>>), Mgr("a", <<"b">>), Mgr("b", <<>>),
      Mgr("c", <<>>), Mgr("c", <<"c">>) }

\* manager objects used by the pipeline specification
PipelinePool == { Mgr("a", <<>>), Mgr("b", <<>>), Mgr("c", <<>>) }

ManagerIDs == {"a", "b", "c"}

SeqsUpTo(S, n) == UNION { [1..k -> S] : k \in 0..n }

Range(s) == { s[i] : i \in 1..Len(s) }

IdsOf(list) == { list[i].id : i \in 1..Len(list) }

\* ------------------------------------------------------------------------
\* Errors (the values the operations return); NoError is the nil error
\* ------------------------------------------------------------------------
Err(k, i, d) == [kind |-> k, id |-> i, dep |-> d]
NoError == Err("ok", Nil, Nil)
DuplicateManagerError(i) == Err("duplicate", i, Nil)
UnsatisfiedDependencyError(i, d) == Err("unsatisfied", i, d)
OrderError(i) == Err("order", i, Nil)

\* ------------------------------------------------------------------------
\* WithManagers (src/engine/options.go)
\* ------------------------------------------------------------------------
\* a scan that compares each identifier with its predecessor only
RECURSIVE DuplicateScanAdjacent(_, _, _)
DuplicateScanAdjacent(list, i, available) ==
    IF i > Len(list) THEN NoError
    ELSE IF i > 1 /\ list[i].id = list[i - 1].id THEN DuplicateManagerError(list[i].id)
    ELSE DuplicateScanAdjacent(list, i + 1, available \cup {list[i].id})

\* first loop: scan the list building the `available` map, fail at the first
\* identifier that is already a key of the map
RECURSIVE DuplicateScan(_, _, _)
DuplicateScan(list, i, available) ==
    IF i > Len(list) THEN NoError
    ELSE IF list[i].id \in available THEN DuplicateManagerError(list[i].id)
    ELSE DuplicateScan(list, i + 1, available \cup {list[i].id})

\* inner loop over one manager's dependencies
RECURSIVE DepScan(_, _, _, _)
DepScan(id, deps, j, available) ==
    IF j > Len(deps) THEN NoError
    ELSE IF deps[j] \notin available THEN UnsatisfiedDependencyError(id, deps[j])
    ELSE DepScan(id, deps, j + 1, available)

\* second loop: every dependency of every manager must be a key of `available`
RECURSIVE DependencyScan(_, _, _)
DependencyScan(list, i, available) ==
    IF i > Len(list) THEN NoError
    ELSE LET e == DepScan(list[i].id, list[i].deps, 1, available)
         IN  IF e # NoError THEN e ELSE DependencyScan(list, i + 1, available)

WithManagersCheck(list) ==
    LET d == DuplicateScan(list, 1, {})
    IN  IF d # NoError THEN d ELSE DependencyScan(list, 1, IdsOf(list))

\* ------------------------------------------------------------------------
\* WithManagerOrder (src/engine/options.go)
\* ------------------------------------------------------------------------
RECURSIVE OrderScan(_, _, _)
OrderScan(order, i, managerMap) ==
    IF i > Len(order) THEN NoError
    ELSE IF order[i] \notin managerMap THEN OrderError(order[i])
    ELSE OrderScan(order, i + 1, managerMap)

WithManagerOrderCheck(mgrs, order) == OrderScan(order, 1, IdsOf(mgrs))

\* ------------------------------------------------------------------------
\* AddManager (src/engine/engine.go)
\* ------------------------------------------------------------------------
RECURSIVE AddDuplicateScan(_, _, _)
AddDuplicateScan(mgrs, i, newManager) ==
    IF i > Len(mgrs) THEN NoError
    ELSE IF mgrs[i].id = newManager.id THEN DuplicateManagerError(newManager.id)
    ELSE AddDuplicateScan(mgrs, i + 1, newManager)

\* a check that counts the new manager itself among the available ones
AddManagerCheckSelf(mgrs, newManager) ==
    LET d == AddDuplicateScan(mgrs, 1, newManager)
    IN  IF d # NoError THEN d
        ELSE DepScan(newManager.id, newManager.deps, 1, IdsOf(mgrs) \cup {newManager.id})

AddManagerCheck(mgrs, newManager) ==
    LET d == AddDuplicateScan(mgrs, 1, newManager)
    IN  IF d # NoError THEN d
        ELSE DepScan(newManager.id, newManager.deps, 1, IdsOf(mgrs))

\* ------------------------------------------------------------------------
\* State of the program
\* ------------------------------------------------------------------------
VARIABLES
    ePhase,        \* "constructing" (inside New), "ready" (New returned the engine), "failed" (New returned an error)
    managers,      \* Engine.managers
    managerOrder,  \* Engine.managerOrder
    regOp,         \* the last registry operation, what was true of its input, and what it returned
    actorUpserts,  \* how often New handed the engine's own actor to the actor store
    sInput,        \* State.Input
    sOutput,       \* State.Output
    managerData,   \* State.managerData
    customData,    \* State.customData
    callerInput,   \* the fragment object the caller created and put into State.Input
    sActor,        \* State.Actor
    sRecent,       \* State.RecentInteractions
    sRelevant,     \* State.RelevantInteractions
    sTools,        \* State.Tools
    upserts,       \* the fragments handed to interactionFragmentStore.Upsert, in call order
    procLookups,   \* what the actor and session lookups of Engine.Process returned
    postLookups,   \* what the actor and session lookups of Engine.PostProcess returned
    procPc,        \* Engine.Process: "idle" (not called), "running" (managers launched), "returned"
    procResult,    \* the error Engine.Process returned (NoError for nil)
    gErr,          \* errgroup.Group.err: the first error handed to the group
    mpc,           \* per launched manager (by position in Engine.managers): where its Process call is
    mres,          \* per launched manager: what its Process returned
    wtarget,       \* per launched manager: the map its Process writes
    raced,         \* the managers whose map write overlapped another write of the same map
    written,       \* every <<map, key, value>> a manager handed to AddManagerData / AddCustomData
    failOrder,     \* the positions of the managers whose Process returned an error, in return order
    processCalls,  \* per launched manager: how often its Process was invoked
    crashed,       \* the Go runtime ended the program (fatal error: concurrent map writes)
    postPc,        \* Engine.PostProcess: "idle", "running", "returned"
    postResult,    \* the error Engine.PostProcess returned
    postOrder,     \* executionOrder of the running executeManagersInOrder
    postIdx,       \* the loop position in executionOrder
    postCur,       \* the manager whose PostProcess is executing (Nil for none)
    postCalls,     \* the identifiers of the managers whose PostProcess was invoked, in call order
    postRes,       \* the errors those invocations returned, in return order
    pbLive,        \* a PromptBuilder was created with NewPromptBuilder
    pbSections,    \* PromptBuilder.sections
    pbStateData,   \* PromptBuilder.stateData
    pbHelpers,     \* PromptBuilder.helpers: the registered function names
    pbErr,         \* PromptBuilder.err
    firstAbsent,   \* history: the key of the first WithManagerData call made for an absent key
    now,           \* the clock time.Now() reads
    hits,          \* package variable hits of the cache package
    misses,        \* package variable misses
    evicted,       \* package variable evicted
    cLive,         \* per cache: cache.New returned it
    cMaxSize,      \* Cache.maxSize
    cTTL,          \* Cache.ttl
    cItems,        \* Cache.items
    cCancelled,    \* Cache.ctx is cancelled (Close was called)
    cSweeper,      \* the cleanup goroutine: "none", "select", "sweep" (it holds c.mu), "exited"
    cSweepNow,     \* the clock value the running sweep read
    cRemoved,      \* history: how many entries the running sweep has removed
    cFill,         \* history: the fill of the instance since it was last empty
    call,          \* history: the last call of the caller on the State, the builder or a cache
    genPc,         \* Engine.GenerateResponse: "idle", "embedding" (the completion returned), "returned"
    genSession,    \* the sessionID argument of the running GenerateResponse
    genContent,    \* response.Content of the completion
    llmCalls,      \* the calls the running or last GenerateResponse made on e.llmClient, in order
    genRet,        \* what the last GenerateResponse returned: (fragment, error)
    idsIssued,     \* how many identifiers id.New() has handed out
    eventHandler,  \* per manager: BaseManager.eventHandler (Nil for a nil callback)
    registered,    \* history: per manager, the callbacks handed to RegisterEventHandler, in call order
    handled,       \* the invocations of event handlers, in order
    panicIn,       \* the manager whose triggerEvent panicked and ended the program (Nil: none)
    startCalls,    \* how often Engine.StartBackgroundProcesses was called
    stopCalls,     \* how often Engine.StopBackgroundProcesses was called
    startIdx,      \* the loop position of the running Engine.StartBackgroundProcesses (0: none runs)
    stopIdx,       \* the loop position of the running Engine.StopBackgroundProcesses (0: none runs)
    bgPending,     \* per manager: the goroutines launched for its StartBackgroundProcesses, not yet run
    bgStarted,     \* per manager: how often its StartBackgroundProcesses was invoked
    bgStopped,     \* per manager: how often its StopBackgroundProcesses was invoked
    regList,       \* the managers handed to two fresh engines, one per registration path
    bulk,          \* engine W: the error of WithManagers(regList...) and the managers it then holds
    single,        \* engine S: the error of the AddManager calls so far and the managers it holds
    singleIdx,     \* the position in regList of the next AddManager call on engine S
    pathPc         \* "idle", "adding" (AddManager calls under way), "done"

regVars == <<ePhase, managers, managerOrder, regOp, actorUpserts>>
stateRest == <<callerInput, sActor, sRecent, sRelevant, sTools>>
stateVars == <<sInput, sOutput, managerData, customData, stateRest>>
procVars == <<procPc, procResult, gErr, mpc, mres, wtarget, raced, written,
              failOrder, processCalls, crashed>>
postVars == <<postPc, postResult, postOrder, postIdx, postCur, postCalls, postRes>>
pipeVars == <<stateVars, upserts, procLookups, postLookups, procVars, postVars>>
promptVars == <<pbLive, pbSections, pbStateData, pbHelpers, pbErr, firstAbsent>>
cacheVars == <<now, hits, misses, evicted, cLive, cMaxSize, cTTL, cItems, cCancelled,
               cSweeper, cSweepNow, cRemoved, cFill>>
genVars == <<genPc, genSession, genContent, llmCalls, genRet, idsIssued>>
eventVars == <<eventHandler, registered, handled, panicIn>>
bgVars == <<startCalls, stopCalls, startIdx, stopIdx, bgPending, bgStarted, bgStopped>>
pathVars == <<regList, bulk, single, singleIdx, pathPc>>
svcVars == <<genVars, eventVars, bgVars, pathVars>>
extVars == <<promptVars, cacheVars, call, svcVars>>
nonCacheVars == <<regVars, pipeVars, promptVars, svcVars>>
engineVars == <<regVars, upserts, procLookups, postLookups, procVars, postVars, svcVars>>
vars == <<regVars, pipeVars, extVars>>

\* what is recorded about the input of a registry operation (independent of
\* the way the operation scans it)
DupPairs(list) == { <<i, j>> \in (1..Len(list)) \X (1..Len(list)) :
                        i < j /\ list[i].id = list[j].id }
MissingDeps(list, present) ==
    UNION { { <<i, j>> : j \in { k \in 1..Len(list[i].deps) : list[i].deps[k] \notin present } } :
            i \in 1..Len(list) }

RegOp(op, res, dup, missing) ==
    [op |-> op, res |-> res, dup |-> dup, missing |-> missing]

NoOp == RegOp("none", NoError, {}, FALSE)

\* ------------------------------------------------------------------------
\* Fragments (src/db/types.go).  ref is the identity of the Go object.
\* ------------------------------------------------------------------------
Fragment(ref, id, actor, session) ==
    [ref |-> ref, ID |-> id,
     ActorID |-> <<"actorID", id>>, SessionID |-> <<"sessionID", id>>,
     Content |-> <<"content", id>>, Metadata |-> <<"metadata", id>>,
     Embedding |-> <<"embedding", id>>,
     Actor |-> actor, Session |-> session,
     CreatedAt |-> <<"createdAt", id>>, UpdatedAt |-> <<"updatedAt", id>>,
     DeletedAt |-> Nil]

\* a nil *db.Fragment
NoFragment == [ref |-> Nil]

\* the fragment the caller put into State.Input, and the response fragment
\* the caller hands to PostProcess (GenerateResponse leaves Actor/Session nil)
InputFragment == Fragment("input", "f1", Nil, Nil)
ResponseFragment == Fragment("response", "f2", Nil, Nil)

\* createFragmentCopy: a new object with the fields of the fragment and the
\* given actor and session
\* a copy that leaves the metadata and the embedding behind
createFragmentCopyBare(fragment, actor, session) ==
    [ref |-> <<"copy", fragment.ref>>,
     ID |-> fragment.ID,
     ActorID |-> fragment.ActorID,
     SessionID |-> fragment.SessionID,
     Content |-> fragment.Content,
     Metadata |-> <<>>,
     Embedding |-> <<>>,
     Actor |-> actor,
     Session |-> session,
     CreatedAt |-> fragment.CreatedAt,
     UpdatedAt |-> fragment.UpdatedAt,
     DeletedAt |-> fragment.DeletedAt]

createFragmentCopy(fragment, actor, session) ==
    [ref |-> <<"copy", fragment.ref>>,
     ID |-> fragment.ID,
     ActorID |-> fragment.ActorID,
     SessionID |-> fragment.SessionID,
     Content |-> fragment.Content,
     Metadata |-> fragment.Metadata,
     Embedding |-> fragment.Embedding,
     Actor |-> actor,
     Session |-> session,
     CreatedAt |-> fragment.CreatedAt,
     UpdatedAt |-> fragment.UpdatedAt,
     DeletedAt |-> fragment.DeletedAt]

\* GetByID of the actor / session store: (entity | nil, error)
Lookup(v, e) == [val |-> v, err |-> e]
LookupResults == { Lookup("found", FALSE), Lookup(Nil, FALSE), Lookup(Nil, TRUE) }
NoLookups == [actor |-> Lookup(Nil, FALSE), session |-> Lookup(Nil, FALSE)]

\* state.NewState(): both maps empty, every other field at its zero value
EmptyMap == [k \in {} |-> Nil]

RegInit ==
    /\ ePhase = "constructing"
    /\ managers = <<>>
    /\ managerOrder = <<>>
    /\ regOp = NoOp
    /\ actorUpserts = 0

PipeInit ==
    /\ sInput = InputFragment
    /\ sOutput = NoFragment
    /\ managerData = EmptyMap
    /\ customData = EmptyMap
    /\ callerInput = InputFragment
    /\ sActor = Nil
    /\ sRecent = <<>>
    /\ sRelevant = <<>>
    /\ sTools = <<>>
    /\ upserts = <<>>
    /\ procLookups = NoLookups
    /\ postLookups = NoLookups
    /\ procPc = "idle"
    /\ procResult = NoError
    /\ gErr = NoError
    /\ mpc = <<>>
    /\ mres = <<>>
    /\ wtarget = <<>>
    /\ raced = {}
    /\ written = {}
    /\ failOrder = <<>>
    /\ processCalls = <<>>
    /\ crashed = FALSE
    /\ postPc = "idle"
    /\ postResult = NoError
    /\ postOrder = <<>>
    /\ postIdx = 0
    /\ postCur = Nil
    /\ postCalls = <<>>
    /\ postRes = <<>>

\* no PromptBuilder exists until NewPromptBuilder is called
PromptInit ==
    /\ pbLive = FALSE
    /\ pbSections = <<>>
    /\ pbStateData = EmptyMap
    /\ pbHelpers = {}
    /\ pbErr = NoError
    /\ firstAbsent = Nil
    /\ call = [op |-> "none"]

\* the instances of the cache
Caches == {"A", "B"}

\* no cache exists until cache.New is called; the counters of the package
\* start at zero
CacheInit ==
    /\ now = 0
    /\ hits = 0
    /\ misses = 0
    /\ evicted = 0
    /\ cLive = [c \in Caches |-> FALSE]
    /\ cMaxSize = [c \in Caches |-> 0]
    /\ cTTL = [c \in Caches |-> 0]
    /\ cItems = [c \in Caches |-> EmptyMap]
    /\ cCancelled = [c \in Caches |-> FALSE]
    /\ cSweeper = [c \in Caches |-> "none"]
    /\ cSweepNow = [c \in Caches |-> 0]
    /\ cRemoved = [c \in Caches |-> 0]
    /\ cFill = [c \in Caches |-> [keys |-> <<>>, ok |-> FALSE, ties |-> FALSE]]

\* what GenerateResponse returns: (*db.Fragment, error)
GenResult(fragment, err) == [fragment |-> fragment, err |-> err]

\* GenerateResponse was not called yet
GenInit ==
    /\ genPc = "idle"
    /\ genSession = Nil
    /\ genContent = <<"content", Nil>>
    /\ llmCalls = <<>>
    /\ genRet = GenResult(NoFragment, NoError)
    /\ idsIssued = 0

\* no handler is registered, nothing was triggered
EventInit ==
    /\ eventHandler = [m \in ManagerIDs |-> Nil]
    /\ registered = [m \in ManagerIDs |-> <<>>]
    /\ handled = <<>>
    /\ panicIn = Nil

\* no background process was started
BgInit ==
    /\ startCalls = 0
    /\ stopCalls = 0
    /\ startIdx = 0
    /\ stopIdx = 0
    /\ bgPending = [m \in ManagerIDs |-> 0]
    /\ bgStarted = [m \in ManagerIDs |-> 0]
    /\ bgStopped = [m \in ManagerIDs |-> 0]

\* no list was handed to the two engines yet
Registered(err, mgrs) == [err |-> err, managers |-> mgrs]

PathInit ==
    /\ regList = <<>>
    /\ bulk = Registered(NoError, <<>>)
    /\ single = Registered(NoError, <<>>)
    /\ singleIdx = 0
    /\ pathPc = "idle"

Init == RegInit /\ PipeInit /\ PromptInit /\ CacheInit /\ GenInit /\ EventInit /\ BgInit /\ PathInit

\* ------------------------------------------------------------------------
\* Engine construction: New applies the options in the order given; the
\* first option that returns an error ends New with (nil, error)
\* ------------------------------------------------------------------------
WithManagers(list) ==
    /\ ePhase = "constructing"
    /\ LET res == WithManagersCheck(list)
       IN  /\ regOp' = RegOp("WithManagers", res, DupPairs(list),
                             MissingDeps(list, IdsOf(list)) # {})
           /\ IF res = NoError
              THEN managers' = list /\ ePhase' = ePhase
              ELSE managers' = managers /\ ePhase' = "failed"
    /\ UNCHANGED <<managerOrder, actorUpserts, pipeVars, extVars>>

WithManagerOrder(order) ==
    /\ ePhase = "constructing"
    /\ LET res == WithManagerOrderCheck(managers, order)
       IN  /\ regOp' = RegOp("WithManagerOrder", res, {}, FALSE)
           /\ IF res = NoError
              THEN managerOrder' = order /\ ePhase' = ePhase
              ELSE managerOrder' = managerOrder /\ ePhase' = "failed"
    /\ UNCHANGED <<managers, actorUpserts, pipeVars, extVars>>

\* the options are exhausted: ApplyOptions validates the required fields
\* (fieldMissing: one of them was left unset by the options), then New upserts
\* the engine's own actor and returns the engine
\* what New returns once the options are applied
NewResult(fieldMissing, upsertFailed) ==
    IF fieldMissing THEN Err("missing required fields", Nil, Nil)
    ELSE IF upsertFailed THEN Err("failed to upsert actor", Nil, Nil)
    ELSE NoError

\* a New that upserts the actor before the required fields are validated
NewReturnUpsertFirst(fieldMissing, upsertFailed) ==
    /\ ePhase = "constructing"
    /\ actorUpserts' = actorUpserts + 1
    /\ ePhase' = IF fieldMissing \/ upsertFailed THEN "failed" ELSE "ready"
    /\ regOp' = RegOp("New", NewResult(fieldMissing, upsertFailed), {}, FALSE)
    /\ UNCHANGED <<managers, managerOrder, pipeVars, extVars>>

NewReturn(fieldMissing, upsertFailed) ==
    /\ ePhase = "constructing"
    /\ IF fieldMissing
       THEN ePhase' = "failed" /\ actorUpserts' = actorUpserts
       ELSE /\ actorUpserts' = actorUpserts + 1
            /\ ePhase' = IF upsertFailed THEN "failed" ELSE "ready"
    /\ regOp' = RegOp("New", NewResult(fieldMissing, upsertFailed), {}, FALSE)
    /\ UNCHANGED <<managers, managerOrder, pipeVars, extVars>>

\* an AddManager that puts the new manager in front of the registered ones
AddManagerInFront(newManager) ==
    /\ ePhase = "ready"
    /\ procPc = "idle" /\ postPc = "idle"
    /\ Len(managers) < MaxManagers
    /\ LET res == AddManagerCheck(managers, newManager)
       IN  /\ regOp' = RegOp("AddManager", res,
                             { <<i, Len(managers) + 1>> : i \in
                                 { k \in 1..Len(managers) : managers[k].id = newManager.id } },
                             MissingDeps(<<newManager>>, IdsOf(managers)) # {})
           /\ IF res = NoError
              THEN managers' = <<newManager>> \o managers
              ELSE managers' = managers
    /\ UNCHANGED <<ePhase, managerOrder, actorUpserts, pipeVars, extVars>>

AddManager(newManager) ==
    /\ ePhase = "ready"
    /\ procPc = "idle" /\ postPc = "idle"
    /\ Len(managers) < MaxManagers
    /\ LET res == AddManagerCheck(managers, newManager)
       IN  /\ regOp' = RegOp("AddManager", res,
                             { <<i, Len(managers) + 1>> : i \in
                                 { k \in 1..Len(managers) : managers[k].id = newManager.id } },
                             MissingDeps(<<newManager>>, IdsOf(managers)) # {})
           /\ IF res = NoError
              THEN managers' = Append(managers, newManager)
              ELSE managers' = managers
    /\ UNCHANGED <<ePhase, managerOrder, actorUpserts, pipeVars, extVars>>

\* ------------------------------------------------------------------------
\* Engine.Process (src/engine/engine.go)
\* ------------------------------------------------------------------------
\* the two lookups at the head of Process and PostProcess: the first error
\* ends the call
\* a resolution that drops the error of the session lookup
ResolutionErrorActorOnly(actor, session) ==
    IF actor.err THEN Err("get actor", Nil, Nil) ELSE NoError

\* a resolution that takes a nil entity for a failed lookup
ResolutionErrorOnNil(actor, session) ==
    IF actor.err \/ actor.val = Nil THEN Err("get actor", Nil, Nil)
    ELSE IF session.err \/ session.val = Nil THEN Err("get session", Nil, Nil)
    ELSE NoError

ResolutionError(actor, session) ==
    IF actor.err THEN Err("get actor", Nil, Nil)
    ELSE IF session.err THEN Err("get session", Nil, Nil)
    ELSE NoError

\* a group that keeps the last error instead of the first
ErrLast(g, e) == e

\* errgroup.Group: g.errOnce.Do(func() { g.err = err }) keeps the first error
ErrOnce(g, e) == IF g = NoError THEN e ELSE g

\* a Wait that returns as soon as one function has returned
WaitFirst(pcs) == Len(pcs) = 0 \/ \E i \in 1..Len(pcs) : pcs[i] = "returned"

\* errgroup.Group.Wait: g.wg.Wait() returns when every function has returned
WaitDone(pcs) == \A i \in 1..Len(pcs) : pcs[i] = "returned"

\* a Process that stores the input whatever the managers returned
UpsertsAlways(g, ups, inputCopy, failed) ==
    Append(ups, [frag |-> inputCopy, failed |-> failed])

\* after Wait: an error of the group ends Process before the Upsert
UpsertsAfterWait(g, ups, inputCopy, failed) ==
    IF g # NoError THEN ups
    ELSE Append(ups, [frag |-> inputCopy, failed |-> failed])

\* a Process that drops the error of the Upsert
ProcessErrorIgnoresStore(g, storeFailed) ==
    IF g # NoError THEN Err("manager analysis", g.id, Nil) ELSE NoError

ProcessError(g, storeFailed) ==
    IF g # NoError THEN Err("manager analysis", g.id, Nil)
    ELSE IF storeFailed THEN Err("store input", Nil, Nil)
    ELSE NoError

\* the error a manager's Process / PostProcess returns when it fails
ManagerError(id) == Err("manager failed", id, Nil)

\* Process up to the launch of the managers
ProcessBegin(actor, session) ==
    /\ ePhase = "ready" /\ procPc = "idle" /\ postPc = "idle" /\ ~crashed
    /\ procLookups' = [actor |-> actor, session |-> session]
    /\ LET e == ResolutionError(actor, session)
           n == Len(managers)
       IN  IF e # NoError
           THEN /\ procPc' = "returned"
                /\ procResult' = e
                /\ UNCHANGED <<sInput, mpc, mres, wtarget, processCalls>>
           ELSE /\ sInput' = createFragmentCopy(sInput, actor.val, session.val)
                /\ procPc' = "running"
                /\ procResult' = NoError
                /\ mpc' = [i \in 1..n |-> "spawned"]
                /\ mres' = [i \in 1..n |-> NoError]
                /\ wtarget' = [i \in 1..n |-> Nil]
                /\ processCalls' = [i \in 1..n |-> 0]
    /\ UNCHANGED <<extVars, regVars, sOutput, managerData, customData, stateRest, upserts, postLookups,
                   gErr, raced, written, failOrder, crashed, postVars>>

\* the goroutine of manager i starts: m.Process(currentState) is invoked
MgrStart(i) ==
    /\ procPc = "running" /\ ~crashed
    /\ i \in 1..Len(mpc) /\ mpc[i] = "spawned"
    /\ mpc' = [mpc EXCEPT ![i] = "running"]
    /\ processCalls' = [processCalls EXCEPT ![i] = @ + 1]
    /\ UNCHANGED <<extVars, regVars, stateVars, upserts, procLookups, postLookups, procPc,
                   procResult, gErr, mres, wtarget, raced, written, failOrder,
                   crashed, postVars>>

\* ------------------------------------------------------------------------
\* State.AddManagerData / State.AddCustomData (src/state/state.go), called by
\* a manager's Process.  Neither takes a lock: the map assignment of one
\* goroutine can overlap the assignment of another to the same map.
\* ------------------------------------------------------------------------
MapTargets == {"managerData", "customData"}

\* a manager publishes its manager data under its own key and its custom
\* data under the key shared by the platform
WriteKey(target, id) == IF target = "managerData" THEN id ELSE "platform"

MapSet(map, key, value) ==
    [k \in DOMAIN map \cup {key} |-> IF k = key THEN value ELSE map[k]]

\* the outcomes of a map assignment: alone it is applied; overlapping another
\* assignment to the same map it is a data race, and the build either keeps
\* the write, loses it, or the runtime detects the race and ends the program
WriteOutcomes(isRaced) ==
    IF isRaced THEN {"applied", "lost", "fatal"} ELSE {"applied"}

MgrWriteBegin(i, target) ==
    /\ procPc = "running" /\ ~crashed
    /\ i \in 1..Len(mpc) /\ mpc[i] = "running" /\ wtarget[i] = Nil
    /\ mpc' = [mpc EXCEPT ![i] = "inwrite"]
    /\ wtarget' = [wtarget EXCEPT ![i] = target]
    /\ written' = written \cup {<<target, WriteKey(target, managers[i].id), managers[i].id>>}
    /\ LET others == { j \in 1..Len(mpc) : j # i /\ mpc[j] = "inwrite" /\ wtarget[j] = target }
       IN  raced' = IF others = {} THEN raced ELSE raced \cup others \cup {i}
    /\ UNCHANGED <<extVars, regVars, stateVars, upserts, procLookups, postLookups, procPc,
                   procResult, gErr, mres, failOrder, processCalls, crashed, postVars>>

MgrWriteEnd(i, outcome) ==
    /\ procPc = "running" /\ ~crashed
    /\ i \in 1..Len(mpc) /\ mpc[i] = "inwrite"
    /\ outcome \in WriteOutcomes(i \in raced)
    /\ mpc' = [mpc EXCEPT ![i] = "running"]
    /\ crashed' = (outcome = "fatal")
    /\ LET key == WriteKey(wtarget[i], managers[i].id)
       IN  /\ managerData' = IF outcome = "applied" /\ wtarget[i] = "managerData"
                             THEN MapSet(managerData, key, managers[i].id)
                             ELSE managerData
           /\ customData' = IF outcome = "applied" /\ wtarget[i] = "customData"
                            THEN MapSet(customData, key, managers[i].id)
                            ELSE customData
    /\ UNCHANGED <<extVars, regVars, sInput, sOutput, stateRest, upserts, procLookups, postLookups, procPc,
                   procResult, gErr, mres, wtarget, raced, written, failOrder,
                   processCalls, postVars>>

\* m.Process returns e; the goroutine hands a non-nil e to the group
MgrReturn(i, e) ==
    /\ procPc = "running" /\ ~crashed
    /\ i \in 1..Len(mpc) /\ mpc[i] = "running"
    /\ e \in {NoError, ManagerError(managers[i].id)}
    /\ mpc' = [mpc EXCEPT ![i] = "returned"]
    /\ mres' = [mres EXCEPT ![i] = e]
    /\ failOrder' = IF e # NoError THEN Append(failOrder, i) ELSE failOrder
    /\ gErr' = IF e # NoError THEN ErrOnce(gErr, e) ELSE gErr
    /\ UNCHANGED <<extVars, regVars, stateVars, upserts, procLookups, postLookups, procPc,
                   procResult, wtarget, raced, written, processCalls, crashed, postVars>>

\* errGroup.Wait() returns; Process stores the input copy and returns
ProcessWait(storeFailed) ==
    /\ procPc = "running" /\ ~crashed
    /\ WaitDone(mpc)
    /\ (gErr # NoError) => ~storeFailed
    /\ upserts' = UpsertsAfterWait(gErr, upserts, sInput, storeFailed)
    /\ procResult' = ProcessError(gErr, storeFailed)
    /\ procPc' = "returned"
    /\ UNCHANGED <<extVars, regVars, stateVars, procLookups, postLookups, gErr, mpc, mres,
                   wtarget, raced, written, failOrder, processCalls, crashed, postVars>>

\* ------------------------------------------------------------------------
\* Engine.PostProcess and executeManagersInOrder (src/engine/engine.go)
\* ------------------------------------------------------------------------
\* executionOrder: managerOrder, or the registration order when it is empty
ExecutionOrder(mgrs, order) ==
    IF Len(order) = 0 THEN [i \in 1..Len(mgrs) |-> mgrs[i].id] ELSE order

PostProcessError(storeFailed) ==
    IF storeFailed THEN Err("store response", Nil, Nil) ELSE NoError

\* PostProcess up to the loop of executeManagersInOrder
PostProcessBegin(actor, session) ==
    /\ ePhase = "ready" /\ procPc \in {"idle", "returned"} /\ postPc = "idle" /\ ~crashed
    /\ postLookups' = [actor |-> actor, session |-> session]
    /\ LET e == ResolutionError(actor, session)
       IN  IF e # NoError
           THEN /\ postPc' = "returned"
                /\ postResult' = e
                /\ UNCHANGED <<sOutput, postOrder, postIdx>>
           ELSE /\ sOutput' = createFragmentCopy(ResponseFragment, actor.val, session.val)
                /\ postPc' = "running"
                /\ postResult' = NoError
                /\ postOrder' = ExecutionOrder(managers, managerOrder)
                /\ postIdx' = 1
    /\ UNCHANGED <<extVars, regVars, sInput, managerData, customData, stateRest, upserts, procLookups,
                   procVars, postCur, postCalls, postRes>>

\* one iteration of the loop: the manager named by executionOrder[postIdx]
\* is invoked if managerMap holds it, and skipped otherwise
PostInvoke ==
    /\ postPc = "running" /\ postCur = Nil /\ postIdx <= Len(postOrder)
    /\ IF postOrder[postIdx] \in IdsOf(managers)
       THEN /\ postCur' = postOrder[postIdx]
            /\ postCalls' = Append(postCalls, postOrder[postIdx])
            /\ postIdx' = postIdx
       ELSE /\ postIdx' = postIdx + 1
            /\ UNCHANGED <<postCur, postCalls>>
    /\ UNCHANGED <<extVars, regVars, stateVars, upserts, procLookups, postLookups, procVars,
                   postPc, postResult, postOrder, postRes>>

\* a loop that records the error and goes on with the next manager
AfterPostProcessContinue(id, e) ==
    [pc |-> "running",
     result |-> IF e # NoError THEN Err("manager actions", id, Nil) ELSE NoError,
     step |-> 1]

\* what executeManagersInOrder and PostProcess do with the error e that the
\* PostProcess of manager id returned
AfterPostProcess(id, e) ==
    IF e # NoError
    THEN [pc |-> "returned", result |-> Err("manager actions", id, Nil), step |-> 0]
    ELSE [pc |-> "running", result |-> NoError, step |-> 1]

\* the PostProcess of the current manager returns e
PostMgrReturn(e) ==
    /\ postPc = "running" /\ postCur # Nil
    /\ e \in {NoError, ManagerError(postCur)}
    /\ postRes' = Append(postRes, e)
    /\ postCur' = Nil
    /\ LET a == AfterPostProcess(postCur, e)
       IN  /\ postPc' = a.pc
           /\ postResult' = a.result
           /\ postIdx' = postIdx + a.step
    /\ UNCHANGED <<extVars, regVars, stateVars, upserts, procLookups, postLookups, procVars,
                   postOrder, postCalls>>

\* a PostProcess that stores the response and then its enriched copy
PostUpsertsCopyToo(ups, response, responseCopy, failed) ==
    ups \o <<[frag |-> response, failed |-> failed], [frag |-> responseCopy, failed |-> failed]>>

\* interactionFragmentStore.Upsert(response): the fragment the caller passed,
\* not responseCopy
PostUpserts(ups, response, responseCopy, failed) ==
    Append(ups, [frag |-> response, failed |-> failed])

\* the loop is over: PostProcess stores the response and returns
PostFinish(storeFailed) ==
    /\ postPc = "running" /\ postCur = Nil /\ postIdx > Len(postOrder)
    /\ upserts' = PostUpserts(upserts, ResponseFragment, sOutput, storeFailed)
    /\ postResult' = PostProcessError(storeFailed)
    /\ postPc' = "returned"
    /\ UNCHANGED <<extVars, regVars, stateVars, procLookups, postLookups, procVars,
                   postOrder, postIdx, postCur, postCalls, postRes>>

\* ------------------------------------------------------------------------
\* Specifications
\* ------------------------------------------------------------------------
\* the found entity of a lookup
Found == Lookup("found", FALSE)
ManagerErrors == { ManagerError(m) : m \in ManagerIDs }

\* the concurrent Process phase, followed by a PostProcess in registration order
Next ==
    \/ \E list \in SeqsUpTo(PipelinePool, MaxWorkers) : WithManagers(list)
    \/ \E fieldMissing \in BOOLEAN : \E upsertFailed \in BOOLEAN : NewReturn(fieldMissing, upsertFailed)
    \/ \E m \in PipelinePool : Len(managers) < MaxWorkers /\ AddManager(m)
    \/ \E a \in LookupResults : ProcessBegin(a, Found)
    \/ \E s \in LookupResults : ProcessBegin(Found, s)
    \/ \E i \in 1..MaxWorkers : MgrStart(i)
    \/ \E i \in 1..MaxWorkers : \E t \in MapTargets : MgrWriteBegin(i, t)
    \/ \E i \in 1..MaxWorkers : \E o \in {"applied", "lost", "fatal"} : MgrWriteEnd(i, o)
    \/ \E i \in 1..MaxWorkers : \E e \in {NoError} \cup ManagerErrors : MgrReturn(i, e)
    \/ \E f \in BOOLEAN : ProcessWait(f)
    \/ \E a \in LookupResults : PostProcessBegin(a, Found)
    \/ \E s \in LookupResults : PostProcessBegin(Found, s)
    \/ PostInvoke
    \/ PostMgrReturn(NoError)
    \/ PostFinish(FALSE)

Spec == Init /\ [][Next]_vars

\* the ordered PostProcess phase under every accepted engine configuration
NextPost ==
    \/ \E list \in SeqsUpTo(PipelinePool, MaxManagers) : WithManagers(list)
    \/ \E order \in SeqsUpTo(ManagerIDs, MaxOrder) : WithManagerOrder(order)
    \/ \E fieldMissing \in BOOLEAN : \E upsertFailed \in BOOLEAN : NewReturn(fieldMissing, upsertFailed)
    \/ \E m \in PipelinePool : AddManager(m)
    \/ \E a \in LookupResults : \E s \in LookupResults : PostProcessBegin(a, s)
    \/ PostInvoke
    \/ \E e \in {NoError} \cup ManagerErrors : PostMgrReturn(e)
    \/ \E f \in BOOLEAN : PostFinish(f)

SpecPost == Init /\ [][NextPost]_vars

\* the registry: construction options and AddManager
NextRegistry ==
    \/ \E list \in SeqsUpTo(ManagerPool, MaxManagers) : WithManagers(list)
    \/ \E order \in SeqsUpTo(ManagerIDs, MaxOrder) : WithManagerOrder(order)
    \/ \E fieldMissing \in BOOLEAN : \E upsertFailed \in BOOLEAN : NewReturn(fieldMissing, upsertFailed)
    \/ \E m \in ManagerPool : AddManager(m)

SpecRegistry == Init /\ [][NextRegistry]_vars

\* ------------------------------------------------------------------------
\* State: the data stores and Reset (src/state/state.go), called by the
\* caller on its own thread (Engine.Process blocks the caller while the
\* managers run, so none of these calls overlaps a manager's write)
\* ------------------------------------------------------------------------
MaxBatch == 2
MaxSections == 2
MaxTools == 1

DataKeys == {"a", "Actor"}
DataValues == {"m1"}
CustomKeys == {"Actor"}
CustomValues == {"c1"}
StateData(k, v) == [Key |-> k, Value |-> v]
DataEntries == { StateData(k, v) : k \in DataKeys, v \in DataValues }

\* the exported fields the caller assigns before composing a prompt
FieldPool ==
    { [Actor |-> Nil, Recent |-> <<>>, Relevant |-> <<>>],
      [Actor |-> "actor1", Recent |-> <<"r1">>, Relevant |-> <<"r2">>] }

\* the State as one value
StateRec ==
    [Input |-> sInput, Output |-> sOutput, Actor |-> sActor,
     RecentInteractions |-> sRecent, RelevantInteractions |-> sRelevant,
     Tools |-> sTools, managerData |-> managerData, customData |-> customData]

RECURSIVE AddManagerData(_, _)
AddManagerData(map, data) ==
    IF data = <<>> THEN map
    ELSE AddManagerData(MapSet(map, data[1].Key, data[1].Value), Tail(data))

GetManagerData(map, key) ==
    [value |-> IF key \in DOMAIN map THEN map[key] ELSE Nil,
     exists |-> key \in DOMAIN map]

AddCustomData(map, key, value) == MapSet(map, key, value)

GetCustomData(map, key) ==
    [value |-> IF key \in DOMAIN map THEN map[key] ELSE Nil,
     exists |-> key \in DOMAIN map]

\* a Reset that forgets the custom data store
ResetManagerDataOnly(st) == [st EXCEPT !.managerData = EmptyMap]

Reset(st) == [st EXCEPT !.managerData = EmptyMap, !.customData = EmptyMap]

CallerIdle == procPc # "running" /\ postPc # "running" /\ ~crashed

AssignFields(f) ==
    /\ CallerIdle
    /\ sActor' = f.Actor
    /\ sRecent' = f.Recent
    /\ sRelevant' = f.Relevant
    /\ call' = [op |-> "AssignFields"]
    /\ UNCHANGED <<cacheVars, engineVars, promptVars, sInput, sOutput, managerData, customData,
                   callerInput, sTools>>

CallAddManagerData(data) ==
    /\ CallerIdle
    /\ managerData' = AddManagerData(managerData, data)
    /\ call' = [op |-> "AddManagerData"]
    /\ UNCHANGED <<cacheVars, engineVars, promptVars, sInput, sOutput, customData, stateRest>>

CallGetManagerData(key) ==
    /\ CallerIdle
    /\ call' = [op |-> "GetManagerData", key |-> key, ret |-> GetManagerData(managerData, key)]
    /\ UNCHANGED <<cacheVars, engineVars, promptVars, stateVars>>

CallAddCustomData(key, value) ==
    /\ CallerIdle
    /\ customData' = AddCustomData(customData, key, value)
    /\ call' = [op |-> "AddCustomData"]
    /\ UNCHANGED <<cacheVars, engineVars, promptVars, sInput, sOutput, managerData, stateRest>>

CallGetCustomData(key) ==
    /\ CallerIdle
    /\ call' = [op |-> "GetCustomData", key |-> key, ret |-> GetCustomData(customData, key)]
    /\ UNCHANGED <<cacheVars, engineVars, promptVars, stateVars>>

CallReset ==
    /\ CallerIdle
    /\ LET st == Reset(StateRec)
       IN  /\ sInput' = st.Input
           /\ sOutput' = st.Output
           /\ sActor' = st.Actor
           /\ sRecent' = st.RecentInteractions
           /\ sRelevant' = st.RelevantInteractions
           /\ sTools' = st.Tools
           /\ managerData' = st.managerData
           /\ customData' = st.customData
    /\ call' = [op |-> "Reset",
                hadData |-> DOMAIN managerData # {} /\ DOMAIN customData # {}]
    /\ UNCHANGED <<cacheVars, engineVars, promptVars, callerInput>>

\* ------------------------------------------------------------------------
\* PromptBuilder (src/state/prompt.go)
\* ------------------------------------------------------------------------
\* Template texts, by what html/template does with them:
\*   lit   "hello"              plain text
\*   ref   "{{.name}}"          the binding of a name
\*   call  "{{helper .name}}"   a registered function applied to a binding;
\*                              Parse fails when the function is not registered
\*   field "{{.name.Name}}"     a field of a bound struct; Execute fails when
\*                              the binding is not a struct
\*   bad   "{{"                 Parse fails
Lit(text) == [kind |-> "lit", text |-> text, name |-> Nil, helper |-> Nil]
Ref(name) == [kind |-> "ref", text |-> Nil, name |-> name, helper |-> Nil]
HelperCall(helper, name) == [kind |-> "call", text |-> Nil, name |-> name, helper |-> helper]
FieldOf(name) == [kind |-> "field", text |-> Nil, name |-> name, helper |-> Nil]
BadTemplate == [kind |-> "bad", text |-> Nil, name |-> Nil, helper |-> Nil]

PromptSection(role, template, name) == [Role |-> role, Template |-> template, Name |-> name]
HelperNames == {"upper"}
ToolPool == {"t1"}
Toolkits == {"kit1"}
GetTools(toolkit) == <<"t2">>

SectionPool ==
    { PromptSection("user", Ref("a"), "alice"),
      PromptSection("assistant", HelperCall("upper", "Actor"), ""),
      PromptSection("system", FieldOf("Actor"), ""),
      PromptSection("system", BadTemplate, "") }

Builder ==
    [sections |-> pbSections, stateData |-> pbStateData, helpers |-> pbHelpers, err |-> pbErr]

\* a WithManagerData that skips a key that is not in the manager data
WithManagerDataLenient(tb, md, key) ==
    IF tb.err # NoError THEN tb
    ELSE LET r == GetManagerData(md, key)
         IN  IF ~r.exists THEN tb
             ELSE [tb EXCEPT !.stateData = MapSet(@, key, r.value)]

WithManagerData(tb, md, key) ==
    IF tb.err # NoError THEN tb
    ELSE LET r == GetManagerData(md, key)
         IN  IF ~r.exists
             THEN [tb EXCEPT !.err = Err("manager data not found", key, Nil)]
             ELSE [tb EXCEPT !.stateData = MapSet(@, key, r.value)]

RECURSIVE WithManagerDataBatch(_, _, _)
WithManagerDataBatch(tb, md, keys) ==
    IF keys = <<>> THEN tb
    ELSE LET t == WithManagerData(tb, md, keys[1])
         IN  IF t.err # NoError THEN t
             ELSE WithManagerDataBatch(t, md, Tail(keys))

\* history: the keys WithManagerDataBatch passes to WithManagerData, in order
RECURSIVE BatchCalls(_, _, _)
BatchCalls(tb, md, keys) ==
    IF keys = <<>> THEN <<>>
    ELSE LET t == WithManagerData(tb, md, keys[1])
         IN  IF t.err # NoError THEN <<keys[1]>>
             ELSE <<keys[1]>> \o BatchCalls(t, md, Tail(keys))

\* history: what firstAbsent becomes after WithManagerData was called for keys
RECURSIVE NoteAbsent(_, _, _)
NoteAbsent(first, md, keys) ==
    IF first # Nil \/ keys = <<>> THEN first
    ELSE IF keys[1] \notin DOMAIN md THEN keys[1]
    ELSE NoteAbsent(first, md, Tail(keys))

NewPromptBuilder ==
    /\ CallerIdle
    /\ pbLive' = TRUE
    /\ pbSections' = <<>>
    /\ pbStateData' = EmptyMap
    /\ pbHelpers' = {}
    /\ pbErr' = NoError
    /\ firstAbsent' = Nil
    /\ call' = [op |-> "NewPromptBuilder"]
    /\ UNCHANGED <<cacheVars, engineVars, stateVars>>

WithHelper(name) ==
    /\ CallerIdle /\ pbLive
    /\ pbHelpers' = IF pbErr # NoError THEN pbHelpers ELSE pbHelpers \cup {name}
    /\ call' = [op |-> "WithHelper"]
    /\ UNCHANGED <<cacheVars, engineVars, stateVars, pbLive, pbSections, pbStateData, pbErr, firstAbsent>>

\* AddSection(role, text) is AddSectionWithName(role, text, "")
AddSectionWithName(role, templateText, name) ==
    /\ CallerIdle /\ pbLive
    /\ Len(pbSections) < MaxSections
    /\ pbSections' = IF pbErr # NoError THEN pbSections
                     ELSE Append(pbSections, PromptSection(role, templateText, name))
    /\ call' = [op |-> "AddSectionWithName"]
    /\ UNCHANGED <<cacheVars, engineVars, stateVars, pbLive, pbStateData, pbHelpers, pbErr, firstAbsent>>

CallWithManagerData(key) ==
    /\ CallerIdle /\ pbLive
    /\ LET tb == WithManagerData(Builder, managerData, key)
       IN  /\ pbStateData' = tb.stateData
           /\ pbErr' = tb.err
    /\ firstAbsent' = NoteAbsent(firstAbsent, managerData, <<key>>)
    /\ call' = [op |-> "WithManagerData"]
    /\ UNCHANGED <<cacheVars, engineVars, stateVars, pbLive, pbSections, pbHelpers>>

CallWithManagerDataBatch(keys) ==
    /\ CallerIdle /\ pbLive
    /\ LET tb == WithManagerDataBatch(Builder, managerData, keys)
       IN  /\ pbStateData' = tb.stateData
           /\ pbErr' = tb.err
    /\ firstAbsent' = NoteAbsent(firstAbsent, managerData, BatchCalls(Builder, managerData, keys))
    /\ call' = [op |-> "WithManagerDataBatch"]
    /\ UNCHANGED <<cacheVars, engineVars, stateVars, pbLive, pbSections, pbHelpers>>

\* WithTools and WithToolkit append to State.Tools; neither looks at tb.err
WithTools(tools) ==
    /\ CallerIdle /\ pbLive
    /\ Len(sTools) + Len(tools) <= MaxTools
    /\ sTools' = sTools \o tools
    /\ call' = [op |-> "WithTools"]
    /\ UNCHANGED <<cacheVars, engineVars, promptVars, sInput, sOutput, managerData, customData,
                   callerInput, sActor, sRecent, sRelevant>>

WithToolkit(toolkit) ==
    /\ CallerIdle /\ pbLive
    /\ Len(sTools) + Len(GetTools(toolkit)) <= MaxTools
    /\ sTools' = sTools \o GetTools(toolkit)
    /\ call' = [op |-> "WithToolkit"]
    /\ UNCHANGED <<cacheVars, engineVars, promptVars, sInput, sOutput, managerData, customData,
                   callerInput, sActor, sRecent, sRelevant>>

\* the exported fields of State, as Compose reads them by reflection
FieldMap(st) ==
    [Input |-> st.Input, Output |-> st.Output, Actor |-> st.Actor,
     RecentInteractions |-> st.RecentInteractions,
     RelevantInteractions |-> st.RelevantInteractions, Tools |-> st.Tools]

\* data[k] = v for every entry of over, on top of base
Override(base, over) ==
    [k \in DOMAIN base \cup DOMAIN over |-> IF k \in DOMAIN over THEN over[k] ELSE base[k]]

\* a data map in which the collected manager data is written last
BindingsManagerDataLast(tb, st) ==
    Override(Override(FieldMap(st), st.customData), tb.stateData)

\* the data map of one section: State fields, then the collected manager
\* data, then the custom data
Bindings(tb, st) == Override(Override(FieldMap(st), tb.stateData), st.customData)

\* what a template prints for a name that is not in the data map
NoValue == "<no value>"
\* the bindings that are structs with a Name field
Structs == {"actor1"}

\* template.New("section").Funcs(helpers).Parse(text) returns no error
Parse(t, helpers) ==
    /\ t.kind # "bad"
    /\ t.kind = "call" => t.helper \in helpers

Lookup1(data, name) == IF name \in DOMAIN data THEN data[name] ELSE NoValue

\* tmpl.Execute(&buf, data): whether it returned no error, and the buffer
Execute(t, data) ==
    CASE t.kind = "lit"   -> [ok |-> TRUE, out |-> <<"text", t.text>>]
      [] t.kind = "ref"   -> [ok |-> TRUE, out |-> <<"value", Lookup1(data, t.name)>>]
      [] t.kind = "call"  -> [ok |-> TRUE, out |-> <<t.helper, Lookup1(data, t.name)>>]
      [] t.kind = "field" -> [ok |-> Lookup1(data, t.name) \in Structs,
                              out |-> <<"Name", Lookup1(data, t.name)>>]
      [] OTHER            -> [ok |-> FALSE, out |-> <<"text", Nil>>]

\* a message that loses the name of its section
MessageAnonymous(role, content, name) == [Role |-> role, Content |-> content, Name |-> ""]

Message(role, content, name) == [Role |-> role, Content |-> content, Name |-> name]

\* the loop of Compose over tb.sections; a nil slice of messages is <<>>
RECURSIVE ComposeSections(_, _, _, _)
ComposeSections(tb, st, sections, messages) ==
    IF sections = <<>> THEN [messages |-> messages, err |-> NoError]
    ELSE LET section == sections[1]
             data == Bindings(tb, st)
         IN  IF ~Parse(section.Template, tb.helpers)
             THEN [messages |-> <<>>, err |-> Err("failed to parse template section", Nil, Nil)]
             ELSE LET r == Execute(section.Template, data)
                  IN  IF ~r.ok
                      THEN [messages |-> <<>>,
                            err |-> Err("failed to execute template section", section.Role, Nil)]
                      ELSE ComposeSections(tb, st, Tail(sections),
                               Append(messages, Message(section.Role, r.out, section.Name)))

Compose(tb, st) ==
    IF tb.err # NoError THEN [messages |-> <<>>, err |-> tb.err]
    ELSE ComposeSections(tb, st, tb.sections, <<>>)

CallCompose ==
    /\ CallerIdle /\ pbLive
    /\ call' = [op |-> "Compose", ret |-> Compose(Builder, StateRec)]
    /\ UNCHANGED <<cacheVars, engineVars, stateVars, promptVars>>

\* the State in the hands of one caller: its data stores, its exported
\* fields and the tools a PromptBuilder appends to it
NextState ==
    \/ \E f \in FieldPool : AssignFields(f)
    \/ \E data \in SeqsUpTo(DataEntries, MaxBatch) : CallAddManagerData(data)
    \/ \E key \in DataKeys : CallGetManagerData(key)
    \/ \E key \in CustomKeys : \E value \in CustomValues : CallAddCustomData(key, value)
    \/ \E key \in CustomKeys : CallGetCustomData(key)
    \/ CallReset
    \/ NewPromptBuilder
    \/ \E tools \in SeqsUpTo(ToolPool, MaxTools) : WithTools(tools)
    \/ \E toolkit \in Toolkits : WithToolkit(toolkit)

SpecState == Init /\ [][NextState]_vars

\* a PromptBuilder over a State the caller fills
NextPrompt ==
    \/ \E f \in FieldPool : AssignFields(f)
    \/ \E data \in SeqsUpTo(DataEntries, MaxBatch) : CallAddManagerData(data)
    \/ \E key \in CustomKeys : \E value \in CustomValues : CallAddCustomData(key, value)
    \/ NewPromptBuilder
    \/ \E name \in HelperNames : WithHelper(name)
    \/ \E s \in SectionPool : AddSectionWithName(s.Role, s.Template, s.Name)
    \/ \E key \in DataKeys : CallWithManagerData(key)
    \/ \E keys \in SeqsUpTo(DataKeys, MaxBatch) : CallWithManagerDataBatch(keys)
    \/ CallCompose

SpecPrompt == Init /\ [][NextPrompt]_vars

\* the builder calls of one PromptBuilder, over a State whose manager data
\* the caller fills
NextBuilder ==
    \/ \E data \in SeqsUpTo(DataEntries, 1) : CallAddManagerData(data)
    \/ NewPromptBuilder
    \/ \E name \in HelperNames : WithHelper(name)
    \/ \E s \in SectionPool : AddSectionWithName(s.Role, s.Template, s.Name)
    \/ \E key \in DataKeys : CallWithManagerData(key)
    \/ \E keys \in SeqsUpTo(DataKeys, MaxBatch) : CallWithManagerDataBatch(keys)
    \/ \E tools \in SeqsUpTo(ToolPool, MaxTools) : WithTools(tools)
    \/ \E toolkit \in Toolkits : WithToolkit(toolkit)

SpecBuilder == Init /\ [][NextBuilder]_vars

\* ------------------------------------------------------------------------
\* Cache (src/cache/types.go).  The entry table and the lock belong to the
\* instance; hits, misses and evicted are variables of the package, shared
\* by every instance and updated with atomic adds.
\* ------------------------------------------------------------------------
MaxTime == 2
\* the three counters together stop at MaxStat
MaxStat == 2

CacheKeys == {"k1", "k2", "k3"}
CacheValues == {"v1"}
TTLs == {1}
\* Config.MaxSize: the zero value, a single entry, two entries
MaxSizes == {0, 1, 2}
\* the configuration and the key of two instances side by side
NeighbourSizes == {1}
NeighbourKeys == {"k1"}

CacheEntry(value, expiration) == [Value |-> value, Expiration |-> expiration]

\* an expiration that forgets the clock
ExpirationFromZero(t, ttl) == ttl

\* time.Now().Add(c.ttl) with the clock reading t
Expiration(t, ttl) == t + ttl

MapRemove(map, key) == [k \in DOMAIN map \ {key} |-> map[k]]

\* an entry that counts as expired as soon as its expiration is reached
ExpiredAtDeadline(t, entry) == t >= entry.Expiration

\* time.Now().After(entry.Expiration) with the clock reading t
Expired(t, entry) == t > entry.Expiration

\* an eviction that picks an entry with the latest expiration
NewestKeys(items) ==
    { k \in DOMAIN items :
        \A j \in DOMAIN items : items[k].Expiration >= items[j].Expiration }

\* evictOldest: the keys its loop can end with -- the map is walked in an
\* unspecified order and a later entry replaces the candidate only when its
\* expiration is strictly earlier, so any entry of minimal expiration
OldestKeys(items) ==
    { k \in DOMAIN items :
        \A j \in DOMAIN items : items[k].Expiration <= items[j].Expiration }

\* Set under the lock: what the entry table can become and how many entries
\* were evicted on the way
SetOutcomes(items, maxSize, key, entry) ==
    IF Cardinality(DOMAIN items) >= maxSize /\ DOMAIN items # {}
    THEN { [items |-> MapSet(MapRemove(items, victim), key, entry), evicted |-> 1] :
             victim \in OldestKeys(items) }
    ELSE { [items |-> MapSet(items, key, entry), evicted |-> 0] }

\* a Get that never looks at the expiration
GetResultStale(items, key, t) ==
    IF key \in DOMAIN items
    THEN [value |-> items[key].Value, found |-> TRUE]
    ELSE [value |-> Nil, found |-> FALSE]

GetResult(items, key, t) ==
    IF key \notin DOMAIN items \/ Expired(t, items[key])
    THEN [value |-> Nil, found |-> FALSE]
    ELSE [value |-> items[key].Value, found |-> TRUE]

CacheStats(c) ==
    [Size |-> Cardinality(DOMAIN cItems[c]), Hits |-> hits, Misses |-> misses,
     Evicted |-> evicted]

\* history of a fill: the distinct keys Set into the instance since it was
\* last empty, while nothing but Set touched it, and whether one of these
\* Sets read the clock value of an earlier one (two equal expirations)
NoFill == [keys |-> <<>>, ok |-> FALSE, ties |-> FALSE]
NewFill == [keys |-> <<>>, ok |-> TRUE, ties |-> FALSE]
FillAfterSet(fill, items, key, expiration, maxSize) ==
    IF ~fill.ok THEN fill
    ELSE IF key \in Range(fill.keys) \/ Len(fill.keys) > maxSize THEN NoFill
    ELSE [fill EXCEPT !.keys = Append(@, key),
                      !.ties = @ \/ (\E k \in DOMAIN items : items[k].Expiration = expiration)]
FillAfterRemoval(items) ==
    IF DOMAIN items = {} THEN NewFill ELSE NoFill

\* c.mu can be taken: the cleanup goroutine is not inside its sweep (the
\* calls of the callers are single steps, so none of them holds it)
LockFree(c) == cSweeper[c] # "sweep"

\* cache.New(config): the instance, and its cleanup goroutine waiting in select
CacheNew(c, maxSize, ttl) ==
    /\ ~cLive[c]
    /\ cLive' = [cLive EXCEPT ![c] = TRUE]
    /\ cMaxSize' = [cMaxSize EXCEPT ![c] = maxSize]
    /\ cTTL' = [cTTL EXCEPT ![c] = ttl]
    /\ cItems' = [cItems EXCEPT ![c] = EmptyMap]
    /\ cSweeper' = [cSweeper EXCEPT ![c] = "select"]
    /\ cFill' = [cFill EXCEPT ![c] = NewFill]
    /\ call' = [op |-> "New", cache |-> c]
    /\ UNCHANGED <<nonCacheVars, now, hits, misses, evicted, cCancelled, cSweepNow,
                   cRemoved>>

\* the clock advances
Tick ==
    /\ now < MaxTime
    /\ now' = now + 1
    /\ UNCHANGED <<nonCacheVars, hits, misses, evicted, cLive, cMaxSize, cTTL, cItems,
                   cCancelled, cSweeper, cSweepNow, cRemoved, cFill, call>>

CacheSet(c, key, value) ==
    /\ cLive[c] /\ LockFree(c)
    /\ hits + misses + evicted < MaxStat
    /\ \E r \in SetOutcomes(cItems[c], cMaxSize[c], key,
                            CacheEntry(value, Expiration(now, cTTL[c]))) :
          /\ cItems' = [cItems EXCEPT ![c] = r.items]
          /\ evicted' = evicted + r.evicted
    /\ cFill' = [cFill EXCEPT ![c] = FillAfterSet(@, cItems[c], key, Expiration(now, cTTL[c]),
                                                   cMaxSize[c])]
    /\ call' = [op |-> "Set", cache |-> c, key |-> key, value |-> value]
    /\ UNCHANGED <<nonCacheVars, now, hits, misses, cLive, cMaxSize, cTTL, cCancelled,
                   cSweeper, cSweepNow, cRemoved>>

\* a Get that counts every call as a miss, and a found entry as a hit as well
CacheGetCountsTwice(c, key) ==
    /\ cLive[c] /\ LockFree(c)
    /\ LET r == GetResult(cItems[c], key, now)
       IN  /\ hits + misses + evicted < MaxStat
           /\ hits' = IF r.found THEN hits + 1 ELSE hits
           /\ misses' = misses + 1
           /\ call' = [op |-> "Get", cache |-> c, key |-> key, ret |-> r]
    /\ UNCHANGED <<nonCacheVars, now, evicted, cLive, cMaxSize, cTTL, cItems, cCancelled,
                   cSweeper, cSweepNow, cRemoved, cFill>>

CacheGet(c, key) ==
    /\ cLive[c] /\ LockFree(c)
    /\ LET r == GetResult(cItems[c], key, now)
       IN  /\ hits + misses + evicted < MaxStat
           /\ hits' = IF r.found THEN hits + 1 ELSE hits
           /\ misses' = IF r.found THEN misses ELSE misses + 1
           /\ call' = [op |-> "Get", cache |-> c, key |-> key, ret |-> r]
    /\ UNCHANGED <<nonCacheVars, now, evicted, cLive, cMaxSize, cTTL, cItems, cCancelled,
                   cSweeper, cSweepNow, cRemoved, cFill>>

CacheDelete(c, key) ==
    /\ cLive[c] /\ LockFree(c)
    /\ cItems' = [cItems EXCEPT ![c] = MapRemove(@, key)]
    /\ cFill' = [cFill EXCEPT ![c] = FillAfterRemoval(MapRemove(cItems[c], key))]
    /\ call' = [op |-> "Delete", cache |-> c]
    /\ UNCHANGED <<nonCacheVars, now, hits, misses, evicted, cLive, cMaxSize, cTTL,
                   cCancelled, cSweeper, cSweepNow, cRemoved>>

CacheClear(c) ==
    /\ cLive[c] /\ LockFree(c)
    /\ cItems' = [cItems EXCEPT ![c] = EmptyMap]
    /\ cFill' = [cFill EXCEPT ![c] = NewFill]
    /\ call' = [op |-> "Clear", cache |-> c]
    /\ UNCHANGED <<nonCacheVars, now, hits, misses, evicted, cLive, cMaxSize, cTTL,
                   cCancelled, cSweeper, cSweepNow, cRemoved>>

CacheGetStats(c) ==
    /\ cLive[c] /\ LockFree(c)
    /\ call' = [op |-> "GetStats", cache |-> c, ret |-> CacheStats(c)]
    /\ UNCHANGED <<nonCacheVars, cacheVars>>

\* Close cancels the context and returns; it takes no lock and does not
\* wait for the cleanup goroutine
CacheClose(c) ==
    /\ cLive[c]
    /\ cCancelled' = [cCancelled EXCEPT ![c] = TRUE]
    /\ call' = [op |-> "Close", cache |-> c]
    /\ UNCHANGED <<nonCacheVars, now, hits, misses, evicted, cLive, cMaxSize, cTTL, cItems,
                   cSweeper, cSweepNow, cRemoved, cFill>>

\* cleanup: select takes the ticker case (whether or not ctx.Done() is ready
\* as well: select chooses among the ready cases), locks and reads the clock
SweepBegin(c) ==
    /\ cSweeper[c] = "select"
    /\ cSweeper' = [cSweeper EXCEPT ![c] = "sweep"]
    /\ cSweepNow' = [cSweepNow EXCEPT ![c] = now]
    /\ cRemoved' = [cRemoved EXCEPT ![c] = 0]
    /\ UNCHANGED <<nonCacheVars, now, hits, misses, evicted, cLive, cMaxSize, cTTL, cItems,
                   cCancelled, cFill, call>>

\* one iteration of the range loop that finds its entry expired
SweepRemove(c, key) ==
    /\ cSweeper[c] = "sweep"
    /\ hits + misses + evicted < MaxStat
    /\ key \in DOMAIN cItems[c] /\ Expired(cSweepNow[c], cItems[c][key])
    /\ cItems' = [cItems EXCEPT ![c] = MapRemove(@, key)]
    /\ evicted' = evicted + 1
    /\ cRemoved' = [cRemoved EXCEPT ![c] = @ + 1]
    /\ cFill' = [cFill EXCEPT ![c] = FillAfterRemoval(MapRemove(cItems[c], key))]
    /\ UNCHANGED <<nonCacheVars, now, hits, misses, cLive, cMaxSize, cTTL, cCancelled,
                   cSweeper, cSweepNow, call>>

\* the loop is over (no expired entry is left): unlock, back to select
SweepEnd(c) ==
    /\ cSweeper[c] = "sweep"
    /\ \A k \in DOMAIN cItems[c] : ~Expired(cSweepNow[c], cItems[c][k])
    /\ cSweeper' = [cSweeper EXCEPT ![c] = "select"]
    /\ cSweepNow' = [cSweepNow EXCEPT ![c] = 0]
    /\ cRemoved' = [cRemoved EXCEPT ![c] = 0]
    /\ UNCHANGED <<nonCacheVars, now, hits, misses, evicted, cLive, cMaxSize, cTTL, cItems,
                   cCancelled, cFill, call>>

\* select takes the ctx.Done() case: the goroutine returns, the deferred
\* ticker.Stop() runs
SweepExit(c) ==
    /\ cSweeper[c] = "select" /\ cCancelled[c]
    /\ cSweeper' = [cSweeper EXCEPT ![c] = "exited"]
    /\ UNCHANGED <<nonCacheVars, now, hits, misses, evicted, cLive, cMaxSize, cTTL, cItems,
                   cCancelled, cSweepNow, cRemoved, cFill, call>>

\* one cache under every operation, its cleanup goroutine and the clock
NextCache ==
    \/ \E maxSize \in MaxSizes : \E ttl \in TTLs : CacheNew("A", maxSize, ttl)
    \/ Tick
    \/ \E key \in CacheKeys : \E value \in CacheValues : CacheSet("A", key, value)
    \/ \E key \in CacheKeys : CacheGet("A", key)
    \/ \E key \in CacheKeys : CacheDelete("A", key)
    \/ CacheClear("A")
    \/ CacheClose("A")
    \/ SweepBegin("A")
    \/ \E key \in CacheKeys : SweepRemove("A", key)
    \/ SweepEnd("A")
    \/ SweepExit("A")

SpecCache == Init /\ [][NextCache]_vars

\* two instances of the package side by side, each with one key
NextCachePair ==
    \/ \E c \in Caches : \E maxSize \in NeighbourSizes : \E ttl \in TTLs : CacheNew(c, maxSize, ttl)
    \/ Tick
    \/ \E c \in Caches : \E key \in NeighbourKeys : \E value \in CacheValues : CacheSet(c, key, value)
    \/ \E c \in Caches : \E key \in NeighbourKeys : CacheGet(c, key)
    \/ \E c \in Caches : CacheGetStats(c)
    \/ \E c \in Caches : SweepBegin(c)
    \/ \E c \in Caches : \E key \in NeighbourKeys : SweepRemove(c, key)
    \/ \E c \in Caches : SweepEnd(c)

SpecCachePair == Init /\ [][NextCachePair]_vars

\* the configurations, keys and values of a cache whose entries are replaced
EntryTTLs == {1, 2}
EntrySizes == {1, 2}
EntryKeys == {"k1", "k2"}
EntryValues == {"v1", "v2"}

\* one cache whose keys are Set again with other values and at other times
NextCacheEntries ==
    \/ \E maxSize \in EntrySizes : \E ttl \in EntryTTLs : CacheNew("A", maxSize, ttl)
    \/ Tick
    \/ \E key \in EntryKeys : \E value \in EntryValues : CacheSet("A", key, value)
    \/ \E key \in EntryKeys : CacheGet("A", key)
    \/ \E key \in EntryKeys : CacheDelete("A", key)
    \/ CacheClear("A")
    \/ SweepBegin("A")
    \/ \E key \in EntryKeys : SweepRemove("A", key)
    \/ SweepEnd("A")

SpecCacheEntries == Init /\ [][NextCacheEntries]_vars

\* ------------------------------------------------------------------------
\* Engine.GenerateResponse (src/engine/engine.go).  The provider behind
\* e.llmClient is outside the program: what its calls return is an input.
\* ------------------------------------------------------------------------
MaxIds == 2

\* Engine.ID, as the ActorID of a fragment
EngineID == <<"actorID", "assistant">>
SessionIDs == {"s1", "s2"}
MessageLists ==
    { <<>>,
      <<Message("user", <<"text", "hi">>, "")>>,
      <<Message("system", <<"text", "be brief">>, ""), Message("user", <<"text", "hi">>, "alice")>> }

\* GenerateCompletion returns (Message, error), EmbedText ([]float32, error)
CompletionResults ==
    { [err |-> FALSE, Content |-> <<"content", "t1">>],
      [err |-> FALSE, Content |-> <<"content", "t2">>],
      [err |-> TRUE, Content |-> <<"content", Nil>>] }
EmbedResults ==
    { [err |-> FALSE, vector |-> <<"vector", "e1">>],
      [err |-> TRUE, vector |-> <<"vector", Nil>>] }

CompletionRequest(messages, tools) ==
    [Messages |-> messages, ModelType |-> "default", Temperature |-> "0.7", Tools |-> tools]

LLMCall(fn, req, text) == [fn |-> fn, req |-> req, text |-> text]

\* pgvector.NewVector(embedding)
NewVector(vector) == <<"embedding", vector[2]>>

\* the fragment GenerateResponse builds; n identifiers were issued before
GeneratedFragment(n, sessionID, content, vector) ==
    [ref |-> <<"generated", n + 1>>,
     ID |-> <<"id", n + 1>>,
     ActorID |-> EngineID,
     SessionID |-> <<"sessionID", sessionID>>,
     Content |-> content,
     Metadata |-> <<>>,
     Embedding |-> NewVector(vector),
     Actor |-> Nil,
     Session |-> Nil,
     CreatedAt |-> <<"createdAt", "now">>,
     UpdatedAt |-> <<"updatedAt", "now">>,
     DeletedAt |-> Nil]

\* a GenerateResponse that asks for the embedding whatever the completion returned
AfterCompletionAlways(result) == "embedding"

\* where GenerateResponse is once GenerateCompletion returned
AfterCompletion(result) == IF result.err THEN "returned" ELSE "embedding"

\* GenerateResponse up to the return of GenerateCompletion
GenerateResponse(messages, sessionID, tools, result) ==
    /\ ePhase = "ready" /\ genPc \in {"idle", "returned"}
    /\ idsIssued < MaxIds
    /\ llmCalls' = <<LLMCall("GenerateCompletion", CompletionRequest(messages, tools),
                              <<"content", Nil>>)>>
    /\ genSession' = sessionID
    /\ genContent' = result.Content
    /\ genPc' = AfterCompletion(result)
    /\ genRet' = IF result.err
                 THEN GenResult(NoFragment, Err("failed to generate completion", Nil, Nil))
                 ELSE GenResult(NoFragment, NoError)
    /\ UNCHANGED <<regVars, pipeVars, promptVars, cacheVars, call, eventVars, bgVars, pathVars, idsIssued>>

\* EmbedText(response.Content), then the fragment or the error
GenerateResponseEmbed(result) ==
    /\ genPc = "embedding"
    /\ llmCalls' = Append(llmCalls, LLMCall("EmbedText", CompletionRequest(<<>>, <<>>),
                                            genContent))
    /\ genPc' = "returned"
    /\ IF result.err
       THEN /\ genRet' = GenResult(NoFragment,
                                   Err("failed to create embedding for response", Nil, Nil))
            /\ idsIssued' = idsIssued
       ELSE /\ genRet' = GenResult(GeneratedFragment(idsIssued, genSession, genContent,
                                                     result.vector), NoError)
            /\ idsIssued' = idsIssued + 1
    /\ UNCHANGED <<regVars, pipeVars, promptVars, cacheVars, call, eventVars, bgVars, pathVars,
                   genSession, genContent>>

\* an engine that generates responses
NextGenerate ==
    \/ \E fieldMissing \in BOOLEAN : \E upsertFailed \in BOOLEAN : NewReturn(fieldMissing, upsertFailed)
    \/ \E messages \in MessageLists : \E sessionID \in SessionIDs :
          \E tools \in SeqsUpTo(ToolPool, MaxTools) : \E result \in CompletionResults :
             GenerateResponse(messages, sessionID, tools, result)
    \/ \E result \in EmbedResults : GenerateResponseEmbed(result)

SpecGenerate == Init /\ [][NextGenerate]_vars

\* ------------------------------------------------------------------------
\* The event slot of a manager (src/manager/manager.go)
\* ------------------------------------------------------------------------
MaxRegs == 2
MaxEvents == 2

\* the managers that register and trigger, the callbacks (Nil: a nil
\* EventCallbackFunc) and the event data
EventManagers == {"a", "b"}
Callbacks == {"h1", "h2", Nil}
EventDatas == {"e1"}

Invocation(m, handler, eventData) == [manager |-> m, handler |-> handler, data |-> eventData]

\* a registration that keeps the handler that is already there
SlotAfterRegisterKeep(slot, callback) == IF slot # Nil THEN slot ELSE callback

\* bm.eventHandler = callback
SlotAfterRegister(slot, callback) == callback

RegisterEventHandler(m, callback) ==
    /\ panicIn = Nil
    /\ Len(registered[m]) < MaxRegs
    /\ eventHandler' = [eventHandler EXCEPT ![m] = SlotAfterRegister(@, callback)]
    /\ registered' = [registered EXCEPT ![m] = Append(@, callback)]
    /\ UNCHANGED <<regVars, pipeVars, promptVars, cacheVars, call, genVars, bgVars, pathVars,
                   handled, panicIn>>

\* triggerEvent: the handler is called and returns, or the panic
triggerEvent(m, eventData) ==
    /\ panicIn = Nil
    /\ Len(handled) < MaxEvents
    /\ IF eventHandler[m] # Nil
       THEN handled' = Append(handled, Invocation(m, eventHandler[m], eventData))
            /\ panicIn' = Nil
       ELSE handled' = handled /\ panicIn' = m
    /\ UNCHANGED <<regVars, pipeVars, promptVars, cacheVars, call, genVars, bgVars, pathVars,
                   eventHandler, registered>>

NextEvents ==
    \/ \E m \in EventManagers : \E callback \in Callbacks : RegisterEventHandler(m, callback)
    \/ \E m \in EventManagers : \E eventData \in EventDatas : triggerEvent(m, eventData)

SpecEvents == Init /\ [][NextEvents]_vars

\* ------------------------------------------------------------------------
\* Background processes (src/engine/engine.go).  The caller starts and
\* stops from one thread; the goroutines Start launches run when the
\* scheduler picks them.
\* ------------------------------------------------------------------------
MaxStarts == 2
MaxStops == 2

nonBgVars == <<regVars, pipeVars, promptVars, cacheVars, call, genVars, eventVars, pathVars>>

\* a loop whose body sees the manager of the last iteration
LoopManagerLast(mgrs, i) == mgrs[Len(mgrs)].id

\* the m of iteration i of "for _, m := range e.managers"
LoopManager(mgrs, i) == mgrs[i].id

\* Engine.StartBackgroundProcesses is called
StartBegin ==
    /\ ePhase = "ready" /\ startIdx = 0 /\ stopIdx = 0
    /\ startCalls < MaxStarts
    /\ startCalls' = startCalls + 1
    /\ startIdx' = 1
    /\ UNCHANGED <<nonBgVars, stopCalls, stopIdx, bgPending, bgStarted, bgStopped>>

\* one iteration: go m.StartBackgroundProcesses()
StartSpawn ==
    /\ startIdx # 0 /\ startIdx <= Len(managers)
    /\ bgPending' = [bgPending EXCEPT ![LoopManager(managers, startIdx)] = @ + 1]
    /\ startIdx' = startIdx + 1
    /\ UNCHANGED <<nonBgVars, startCalls, stopCalls, stopIdx, bgStarted, bgStopped>>

\* the loop is over: Start returns without waiting for the goroutines
StartReturn ==
    /\ startIdx > Len(managers)
    /\ startIdx' = 0
    /\ UNCHANGED <<nonBgVars, startCalls, stopCalls, stopIdx, bgPending, bgStarted, bgStopped>>

\* a launched goroutine runs: the manager's StartBackgroundProcesses is invoked
BackgroundRun(m) ==
    /\ bgPending[m] > 0
    /\ bgPending' = [bgPending EXCEPT ![m] = @ - 1]
    /\ bgStarted' = [bgStarted EXCEPT ![m] = @ + 1]
    /\ UNCHANGED <<nonBgVars, startCalls, stopCalls, startIdx, stopIdx, bgStopped>>

\* Engine.StopBackgroundProcesses is called
StopBegin ==
    /\ ePhase = "ready" /\ startIdx = 0 /\ stopIdx = 0
    /\ stopCalls < MaxStops
    /\ stopCalls' = stopCalls + 1
    /\ stopIdx' = 1
    /\ UNCHANGED <<nonBgVars, startCalls, startIdx, bgPending, bgStarted, bgStopped>>

\* one iteration: m.StopBackgroundProcesses() is invoked and returns
StopInvoke ==
    /\ stopIdx # 0 /\ stopIdx <= Len(managers)
    /\ bgStopped' = [bgStopped EXCEPT ![LoopManager(managers, stopIdx)] = @ + 1]
    /\ stopIdx' = stopIdx + 1
    /\ UNCHANGED <<nonBgVars, startCalls, stopCalls, startIdx, bgPending, bgStarted>>

StopReturn ==
    /\ stopIdx > Len(managers)
    /\ stopIdx' = 0
    /\ UNCHANGED <<nonBgVars, startCalls, stopCalls, startIdx, bgPending, bgStarted, bgStopped>>

\* an engine with its managers, started and stopped by its caller
NextBackground ==
    \/ \E list \in SeqsUpTo(PipelinePool, MaxWorkers) : WithManagers(list)
    \/ \E fieldMissing \in BOOLEAN : \E upsertFailed \in BOOLEAN : NewReturn(fieldMissing, upsertFailed)
    \/ StartBegin
    \/ StartSpawn
    \/ StartReturn
    \/ \E m \in ManagerIDs : BackgroundRun(m)
    \/ StopBegin
    \/ StopInvoke
    \/ StopReturn

SpecBackground == Init /\ [][NextBackground]_vars

\* ------------------------------------------------------------------------
\* The two registration paths side by side: the same list of managers is
\* given to engine W in one WithManagers option and to engine S, which was
\* built without managers, in one AddManager call per manager, in list order
\* (src/engine/options.go WithManagers, src/engine/engine.go AddManager)
\* ------------------------------------------------------------------------
nonPathVars == <<regVars, pipeVars, promptVars, cacheVars, call, genVars, eventVars, bgVars>>

\* what WithManagers leaves in an engine without managers
AfterWithManagers(mgrs, list) ==
    LET res == WithManagersCheck(list)
    IN  Registered(res, IF res = NoError THEN list ELSE mgrs)

\* what AddManager leaves in an engine holding mgrs
AfterAddManager(mgrs, newManager) ==
    LET res == AddManagerCheck(mgrs, newManager)
    IN  Registered(res, IF res = NoError THEN Append(mgrs, newManager) ELSE mgrs)

\* engine W applies WithManagers(list...); engine S is about to get the list
RegisterBoth(list) ==
    /\ pathPc = "idle"
    /\ regList' = list
    /\ bulk' = AfterWithManagers(<<>>, list)
    /\ single' = Registered(NoError, <<>>)
    /\ singleIdx' = 1
    /\ pathPc' = "adding"
    /\ UNCHANGED nonPathVars

\* the caller adds the next manager of the list to engine S and stops at the
\* first AddManager that returns an error
AddNext ==
    /\ pathPc = "adding" /\ singleIdx <= Len(regList)
    /\ single' = AfterAddManager(single.managers, regList[singleIdx])
    /\ IF single'.err = NoError
       THEN singleIdx' = singleIdx + 1 /\ pathPc' = pathPc
       ELSE singleIdx' = singleIdx /\ pathPc' = "done"
    /\ UNCHANGED <<nonPathVars, regList, bulk>>

\* every manager of the list was added
AddDone ==
    /\ pathPc = "adding" /\ singleIdx > Len(regList)
    /\ pathPc' = "done"
    /\ UNCHANGED <<nonPathVars, regList, bulk, single, singleIdx>>

NextPaths ==
    \/ \E list \in SeqsUpTo(ManagerPool, MaxManagers) : RegisterBoth(list)
    \/ AddNext
    \/ AddDone

SpecPaths == Init /\ [][NextPaths]_vars

\* ------------------------------------------------------------------------
\* Properties
\* ------------------------------------------------------------------------
ResolutionKinds == {"get actor", "get session"}
ProcessResolved == procPc = "returned" /\ procResult.kind \notin ResolutionKinds
InputUpserts == SelectSeq(upserts, LAMBDA u : u.frag.ID = InputFragment.ID)
ResponseUpserts == SelectSeq(upserts, LAMBDA u : u.frag.ID = ResponseFragment.ID)
AllProcessOk == \A i \in 1..Len(mres) : mres[i] = NoError
Count(seq, x) == Cardinality({ k \in 1..Len(seq) : seq[k] = x })
IsPrefix(p, q) == Len(p) <= Len(q) /\ \A k \in 1..Len(p) : p[k] = q[k]

\* C1: once Process has returned after a successful resolution: if every
\* manager's Process returned nil and the store write did not fail, Process
\* returned nil and made exactly one Upsert, of the enriched input copy; if
\* some manager's Process returned an error, Process returned an error and
\* made no Upsert.
C1_PersistIffAllManagersSucceed ==
    ProcessResolved =>
        /\ Len(mres) = Len(managers)
        /\ (AllProcessOk /\ (\A k \in 1..Len(InputUpserts) : ~InputUpserts[k].failed))
              => /\ procResult = NoError
                 /\ InputUpserts = <<[frag |-> sInput, failed |-> FALSE]>>
                 /\ sInput = createFragmentCopy(InputFragment, procLookups.actor.val,
                                                procLookups.session.val)
        /\ ~AllProcessOk => (procResult # NoError /\ InputUpserts = <<>>)

C1_Witness ==
    /\ ProcessResolved /\ Len(mres) >= 2 /\ AllProcessOk
    /\ procResult = NoError /\ Len(InputUpserts) = 1

\* C2: no manager's Process is invoked twice; when Process returns after the
\* launch, every registered manager's Process was invoked exactly once and
\* has returned, also when some of them failed; and while a manager's
\* PostProcess executes no Process call is still running.
C2_AllManagersReturnBeforeProcessReturns ==
    /\ \A i \in 1..Len(processCalls) : processCalls[i] <= 1
    /\ ProcessResolved =>
          /\ Len(mpc) = Len(managers)
          /\ \A i \in 1..Len(managers) : processCalls[i] = 1 /\ mpc[i] = "returned"
    /\ postCur # Nil => \A i \in 1..Len(mpc) : mpc[i] = "returned"

C2_Witness ==
    /\ postCur # Nil /\ Len(mpc) >= 2 /\ gErr # NoError
    /\ \E i \in 1..Len(mres) : mres[i] = NoError

\* C3: the program is never ended by the runtime for a concurrent map write,
\* and once Process has returned every key a manager handed to AddManagerData /
\* AddCustomData is in its map with a value some manager wrote for that key --
\* also while a manager's PostProcess executes.
C3_NoWriteLost ==
    /\ ~crashed
    /\ (procPc = "returned" \/ postCur # Nil) =>
          \A w \in written :
              LET map == IF w[1] = "managerData" THEN managerData ELSE customData
              IN  w[2] \in DOMAIN map /\ <<w[1], w[2], map[w[2]]>> \in written

\* C4: the managers' PostProcess calls follow the resolved order (the
\* configured order if one is set, else the registration order), one at a
\* time, each started only after all earlier ones returned nil; when the K-th
\* returns an error no later one is invoked, the response is not stored and
\* the error PostProcess returns names the K-th manager.
ResolvedOrder ==
    IF managerOrder # <<>> THEN managerOrder
    ELSE [i \in 1..Len(managers) |-> managers[i].id]

C4_PostProcessOrderedStopAtFirstError ==
    postPc # "idle" =>
        /\ IsPrefix(postCalls, SelectSeq(ResolvedOrder, LAMBDA x : x \in IdsOf(managers)))
        /\ Len(postRes) = IF postCur # Nil THEN Len(postCalls) - 1 ELSE Len(postCalls)
        /\ \A k \in 1..(Len(postCalls) - 1) : postRes[k] = NoError
        /\ \A k \in 1..Len(postRes) :
              postRes[k] # NoError =>
                  /\ postPc = "returned"
                  /\ Len(postCalls) = k
                  /\ ResponseUpserts = <<>>
                  /\ postResult = Err("manager actions", postCalls[k], Nil)

C4_Witness ==
    /\ postPc = "returned"
    /\ Len(managers) >= 2 /\ managers[1].id = "a" /\ managers[2].id = "b"
    /\ managerOrder = <<"b", "a">>
    /\ postCalls = <<"b">> /\ postRes[1] # NoError

\* C5: when PostProcess returned without a resolution or manager error, the
\* PostProcess of every registered manager was invoked exactly once.
C5_EveryManagerPostProcessedOnce ==
    (postPc = "returned" /\ postResult.kind \in {"ok", "store response"}) =>
        \A i \in 1..Len(managers) : Count(postCalls, managers[i].id) = 1

\* C6: WithManagers on a list in which two managers have the same identifier,
\* at whatever positions, returns the duplicate-manager error; so does
\* AddManager of a manager whose identifier is already registered.
C6_DuplicateRejected ==
    (regOp.op \in {"WithManagers", "AddManager"} /\ regOp.dup # {})
        => regOp.res.kind = "duplicate"

C6_Witness ==
    /\ regOp.op = "WithManagers" /\ regOp.dup = {<<1, 3>>}
    /\ regOp.res.kind = "duplicate" /\ ePhase = "failed"

\* C7 as stated: a registration with a dependency that is not among the
\* registered managers returns the unsatisfied-dependency error.
C7_MissingDependencyAlwaysUnsatisfiedError ==
    (regOp.op \in {"WithManagers", "AddManager"} /\ regOp.missing)
        => regOp.res.kind = "unsatisfied"

\* C7 amended: a registration with a dependency that is not among the
\* registered managers always fails: with the unsatisfied-dependency error
\* when no identifier is duplicated, with the duplicate-manager error
\* otherwise; a registration with distinct identifiers and no missing
\* dependency (the dependency first, the dependent second) succeeds.
C7_MissingDependencyRejected ==
    regOp.op \in {"WithManagers", "AddManager"} =>
        /\ regOp.missing => regOp.res # NoError
        /\ (regOp.missing /\ regOp.dup = {}) => regOp.res.kind = "unsatisfied"
        /\ (regOp.missing /\ regOp.dup # {}) => regOp.res.kind = "duplicate"
        /\ (~regOp.missing /\ regOp.dup = {}) => regOp.res = NoError

C7_Witness ==
    /\ regOp.op = "AddManager" /\ regOp.res = NoError
    /\ managers = <<Mgr("b", <<>>), Mgr("a", <<"b">>)>>

\* C8: an accepted explicit order is a permutation of the registered
\* identifiers.
C8_AcceptedOrderIsPermutation ==
    (regOp.op = "WithManagerOrder" /\ regOp.res = NoError /\ managerOrder # <<>>) =>
        /\ Range(managerOrder) = IdsOf(managers)
        /\ \A x \in IdsOf(managers) : Count(managerOrder, x) = 1

\* C9: when the actor lookup or the session lookup returned an error, Process
\* returned an error, no manager's Process was invoked, nothing was handed to
\* the fragment store and State.Input is still the caller's fragment.
C9_ResolutionErrorAbortsProcess ==
    (procPc = "returned" /\ (procLookups.actor.err \/ procLookups.session.err)) =>
        /\ procResult # NoError
        /\ procResult.kind \in ResolutionKinds
        /\ \A i \in 1..Len(processCalls) : processCalls[i] = 0
        /\ \A i \in 1..Len(mpc) : mpc[i] = "spawned"
        /\ InputUpserts = <<>>
        /\ postPc = "idle" => upserts = <<>>
        /\ sInput = InputFragment

C9_Witness ==
    /\ procPc = "returned" /\ Len(managers) >= 1
    /\ ~procLookups.actor.err /\ procLookups.session.err
    /\ procResult.kind = "get session"

\* C10: when managers' Process calls failed, the error Process returns wraps
\* the error of the failing manager that returned first, and of no other.
C10_FirstManagerErrorReturned ==
    /\ failOrder # <<>> => gErr = ManagerError(managers[failOrder[1]].id)
    /\ (procPc = "returned" /\ failOrder # <<>>) =>
          procResult = Err("manager analysis", managers[failOrder[1]].id, Nil)

C10_Witness ==
    /\ procPc = "returned" /\ Len(failOrder) >= 2 /\ failOrder[1] = 2
    /\ procResult.id = managers[2].id

\* the enriched copy of a fragment, as the claims describe it: another
\* object, equal to the fragment in every field but Actor and Session
Enriched(fragment, actor, session) ==
    [fragment EXCEPT !.ref = <<"copy", fragment.ref>>, !.Actor = actor, !.Session = session]

\* C11: from the launch of the managers on -- while any manager's Process
\* runs and after Process returned -- State.Input is the enriched copy of the
\* caller's fragment (another object, every field equal but the resolved
\* Actor and Session), and the caller's fragment is as the caller made it.
C11_InputIsEnrichedCopyDuringPhase ==
    /\ callerInput = InputFragment
    /\ (procPc = "running" \/ ProcessResolved) =>
          /\ sInput = Enriched(InputFragment, procLookups.actor.val, procLookups.session.val)
          /\ sInput.ref # callerInput.ref
    /\ procPc = "idle" => sInput = callerInput

C11_Witness ==
    /\ procPc = "running" /\ Len(mpc) >= 2
    /\ \A i \in 1..Len(mpc) : mpc[i] \in {"running", "inwrite"}
    /\ sInput.Actor = "found" /\ sInput.Session = "found"
    /\ sInput.Metadata = InputFragment.Metadata

\* C12: State.Output is nil until PostProcess is called (Process never writes
\* it), stays nil when a lookup of PostProcess returned an error, and is the
\* enriched copy of the response once both lookups succeeded.
C12_OutputSetOnlyByResolvedPostProcess ==
    /\ postPc = "idle" => sOutput = NoFragment
    /\ (postPc # "idle" /\ (postLookups.actor.err \/ postLookups.session.err))
          => sOutput = NoFragment
    /\ (postPc # "idle" /\ ~postLookups.actor.err /\ ~postLookups.session.err)
          => sOutput = Enriched(ResponseFragment, postLookups.actor.val,
                                postLookups.session.val)

C12_Witness ==
    /\ procPc = "returned" /\ procResult = NoError
    /\ postPc = "returned" /\ ~postLookups.actor.err /\ postLookups.session.err
    /\ sOutput = NoFragment

\* C13: a Reset step leaves both data stores empty, so that every
\* GetManagerData and GetCustomData returns not-found, and changes none of
\* Input, Output, Actor, RecentInteractions, RelevantInteractions and Tools.
C13_ResetClearsStoresOnly ==
    [][call'.op = "Reset" =>
          /\ DOMAIN managerData' = {} /\ DOMAIN customData' = {}
          /\ \A k \in DataKeys : ~GetManagerData(managerData', k).exists
          /\ \A k \in CustomKeys : ~GetCustomData(customData', k).exists
          /\ UNCHANGED <<sInput, sOutput, sActor, sRecent, sRelevant, sTools>>]_vars

C13_Witness ==
    /\ call.op = "Reset" /\ call.hadData
    /\ sActor # Nil /\ sRecent # <<>> /\ sRelevant # <<>> /\ sTools # <<>>

\* C19: once WithManagerData was called for a key that was not in the manager
\* data, Compose returns the error of the first such call and no message.
C19_MissingKeyErrorIsSticky ==
    (call.op = "Compose" /\ firstAbsent # Nil) =>
        /\ call.ret.err = Err("manager data not found", firstAbsent, Nil)
        /\ Len(call.ret.messages) = 0

C19_Witness ==
    /\ call.op = "Compose" /\ firstAbsent # Nil
    /\ firstAbsent \in DOMAIN managerData
    /\ pbSections # <<>> /\ DOMAIN pbStateData # {} /\ pbHelpers # {}

\* what a name is bound to: the custom data entry, else the collected
\* manager data value, else the exported State field
Bound(name) ==
    IF name \in DOMAIN customData THEN customData[name]
    ELSE IF name \in DOMAIN pbStateData THEN pbStateData[name]
    ELSE IF name = "Actor" THEN sActor
    ELSE NoValue

Renders(t) ==
    CASE t.kind = "lit" -> TRUE
      [] t.kind = "ref" -> TRUE
      [] t.kind = "call" -> t.helper \in pbHelpers
      [] t.kind = "field" -> Bound(t.name) \in Structs
      [] OTHER -> FALSE

Rendered(t) ==
    CASE t.kind = "lit" -> <<"text", t.text>>
      [] t.kind = "ref" -> <<"value", Bound(t.name)>>
      [] t.kind = "call" -> <<t.helper, Bound(t.name)>>
      [] OTHER -> <<"Name", Bound(t.name)>>

\* C20: with no build error and every section rendering, Compose returns no
\* error and one message per section, in section order, each with the role
\* and the name of its section and the template rendered with the bindings.
C20_OneMessagePerSectionInOrder ==
    (/\ call.op = "Compose" /\ pbErr = NoError
     /\ \A i \in 1..Len(pbSections) : Renders(pbSections[i].Template)) =>
        /\ call.ret.err = NoError
        /\ Len(call.ret.messages) = Len(pbSections)
        /\ \A i \in 1..Len(pbSections) :
              /\ call.ret.messages[i].Role = pbSections[i].Role
              /\ call.ret.messages[i].Name = pbSections[i].Name
              /\ call.ret.messages[i].Content = Rendered(pbSections[i].Template)

C20_Witness ==
    /\ call.op = "Compose" /\ call.ret.err = NoError
    /\ Len(call.ret.messages) = 2
    /\ call.ret.messages[1].Role # call.ret.messages[2].Role
    /\ call.ret.messages[2].Name = "alice"
    /\ call.ret.messages[2].Content = <<"value", "m1">>

\* the keys of a fill from the second on
LastKeys(keys) == { keys[i] : i \in 2..Len(keys) }

\* C14 as stated: whenever MaxSize+1 distinct keys were Set into an empty
\* cache with nothing but Set in between, the cache holds exactly the last
\* MaxSize of them (the key inserted first is the one evicted).
C14_FillEvictsFirstInserted ==
    \A c \in Caches :
        (cLive[c] /\ cFill[c].ok /\ Len(cFill[c].keys) = cMaxSize[c] + 1)
            => DOMAIN cItems[c] = LastKeys(cFill[c].keys)

\* C14, amended: during such a fill a Set below capacity evicts nothing; the
\* Set of key MaxSize+1 evicts exactly one entry when MaxSize >= 1 (the cache
\* then holds MaxSize of the keys, the last one among them, and the eviction
\* counter rises by one with this Set), and that entry is the key inserted
\* first when no two of the Sets read the same clock value; with MaxSize = 0
\* the first Set evicts nothing and the cache then holds that one key.
C14_FillEvictsOneOldest ==
    [][\A c \in Caches :
         (cFill[c].ok /\ cFill'[c].ok /\ Len(cFill'[c].keys) = Len(cFill[c].keys) + 1) =>
            LET keys == cFill'[c].keys
                n == Len(keys)
                held == DOMAIN cItems'[c]
            IN  /\ n <= cMaxSize[c] =>
                      /\ evicted' = evicted
                      /\ held = Range(keys)
                /\ (n = cMaxSize[c] + 1 /\ cMaxSize[c] >= 1) =>
                      /\ evicted' = evicted + 1
                      /\ Cardinality(held) = cMaxSize[c]
                      /\ held \subseteq Range(keys) /\ keys[n] \in held
                      /\ \A k \in DOMAIN cItems[c] \ held :
                            \A j \in DOMAIN cItems[c] :
                                cItems[c][k].Expiration <= cItems[c][j].Expiration
                      /\ ~cFill[c].ties => held = LastKeys(keys)
                /\ (n = cMaxSize[c] + 1 /\ cMaxSize[c] = 0) =>
                      /\ evicted' = evicted
                      /\ held = {keys[1]}]_vars

C14_Witness ==
    /\ cLive["A"] /\ cMaxSize["A"] = 2
    /\ cFill["A"].ok /\ ~cFill["A"].ties /\ Len(cFill["A"].keys) = 3
    /\ DOMAIN cItems["A"] = LastKeys(cFill["A"].keys)
    /\ evicted = 1

\* a step that completes a Get
GetStep == call'.op = "Get" /\ (call' # call \/ hits' # hits \/ misses' # misses)

\* C15: a Get of key k returns the stored value and adds one to hits (and
\* nothing to misses) when k is in the entry table and the clock has not
\* passed its expiration; otherwise it returns not-found and adds one to
\* misses (and nothing to hits); it never changes the entry table.
C15_GetHitIffPresentAndFresh ==
    [][GetStep =>
          LET c == call'.cache
              k == call'.key
              fresh == k \in DOMAIN cItems[c] /\ now <= cItems[c][k].Expiration
          IN  /\ fresh => /\ call'.ret = [value |-> cItems[c][k].Value, found |-> TRUE]
                          /\ hits' = hits + 1 /\ misses' = misses
              /\ ~fresh => /\ call'.ret = [value |-> Nil, found |-> FALSE]
                           /\ misses' = misses + 1 /\ hits' = hits
              /\ cItems' = cItems]_vars

C15_Witness ==
    /\ call.op = "Get" /\ ~call.ret.found
    /\ call.key \in DOMAIN cItems["A"]
    /\ now = cItems["A"][call.key].Expiration + 1
    /\ hits = 1 /\ misses = 1

\* a step of an operation or of the sweep of instance c
StepOf(c) ==
    \/ call' # call /\ call'.op \in {"Get", "Set"} /\ call'.cache = c
    \/ cItems'[c] # cItems[c]

\* C16: no Get, Set or sweep on instance B changes the hits, misses or
\* evicted that A.GetStats reports.
C16_CountersPerInstance ==
    [][StepOf("B") =>
          /\ CacheStats("A").Hits' = CacheStats("A").Hits
          /\ CacheStats("A").Misses' = CacheStats("A").Misses
          /\ CacheStats("A").Evicted' = CacheStats("A").Evicted]_vars

\* C17: a sweep reads the clock once when it has the lock; every entry it
\* removes has an expiration before that reading, each removal adds one to
\* evicted, it ends only when no such entry is left, and while it runs no
\* operation that takes the lock of the instance (Set, Get, Delete, Clear,
\* GetStats) completes.
C17_SweepRemovesExactlyExpired ==
    [][\A c \in Caches :
         /\ (cSweeper[c] = "select" /\ cSweeper'[c] = "sweep") =>
               cSweepNow'[c] = now /\ cItems'[c] = cItems[c] /\ evicted' = evicted
         /\ cSweeper[c] = "sweep" =>
               /\ cItems'[c] # cItems[c] =>
                     \E k \in DOMAIN cItems[c] :
                         /\ cSweepNow[c] > cItems[c][k].Expiration
                         /\ cItems'[c] = MapRemove(cItems[c], k)
                         /\ evicted' = evicted + 1
               /\ cItems'[c] = cItems[c] => evicted' = evicted
               /\ cSweeper'[c] # "sweep" =>
                     \A k \in DOMAIN cItems[c] : cSweepNow[c] <= cItems[c][k].Expiration
               /\ call' # call => call'.op = "Close"]_vars

C17_Witness ==
    /\ cSweeper["A"] = "sweep" /\ cRemoved["A"] >= 1
    /\ \E k \in DOMAIN cItems["A"] : cItems["A"][k].Expiration = cSweepNow["A"]
    /\ \A k \in DOMAIN cItems["A"] : cSweepNow["A"] <= cItems["A"][k].Expiration

\* C18: once Close was called on an instance, its sweep removes no entry.
C18_NoSweepAfterClose ==
    [][\A c \in Caches :
         (cCancelled[c] /\ cSweeper[c] = "sweep") => cItems'[c] = cItems[c]]_vars

\* the calls that return the builder for chaining
BuilderOps ==
    {"WithHelper", "AddSectionWithName", "WithManagerData", "WithManagerDataBatch",
     "WithTools", "WithToolkit"}

\* C21: once the build error of a PromptBuilder is set, a builder call
\* changes neither the sections, helpers and bindings of the builder nor the
\* State, and the stored error stays.
C21_FailedBuilderIgnoresCalls ==
    [][(pbErr # NoError /\ call'.op \in BuilderOps) =>
          UNCHANGED <<pbSections, pbHelpers, pbStateData, pbErr, stateVars>>]_vars

\* the first section of the builder whose template does not parse or render
FirstFailing ==
    CHOOSE i \in 1..Len(pbSections) :
        /\ ~Renders(pbSections[i].Template)
        /\ \A j \in 1..(i - 1) : Renders(pbSections[j].Template)

\* C22: when a section fails to parse or to render, Compose returns no
\* message and an error that carries the role of that section.
C22_TemplateErrorNamesRole ==
    (/\ call.op = "Compose" /\ pbErr = NoError
     /\ \E i \in 1..Len(pbSections) : ~Renders(pbSections[i].Template)) =>
        /\ call.ret.messages = <<>>
        /\ call.ret.err # NoError
        /\ call.ret.err.id = pbSections[FirstFailing].Role

\* C23: New that fails on an option or on a missing required field has
\* written nothing to the actor store and leaves no engine to work with; the
\* one upsert of the assistant actor happens in the step that ends a New
\* whose options all applied and whose required fields were all set.
C23_NoPartialConstruction ==
    [][/\ (ePhase = "constructing" /\ ePhase' = "failed"
             /\ regOp'.res.kind # "failed to upsert actor") => actorUpserts' = 0
       /\ actorUpserts' # actorUpserts =>
             /\ ePhase = "constructing" /\ actorUpserts = 0 /\ actorUpserts' = 1
             /\ regOp'.op = "New" /\ regOp'.res.kind # "missing required fields"
       /\ (ePhase = "constructing" /\ ePhase' = "ready") =>
             (actorUpserts' = 1 /\ regOp'.res = NoError)
       /\ ePhase' = "ready" => ePhase \in {"constructing", "ready"}
       /\ ePhase = "failed" =>
             (ePhase' = "failed" /\ UNCHANGED <<managers, managerOrder, actorUpserts, upserts>>)
      ]_vars

C23_Witness ==
    /\ ePhase = "failed" /\ actorUpserts = 0
    /\ regOp.op = "New" /\ regOp.res.kind = "missing required fields"
    /\ managers # <<>> /\ managerOrder # <<>>

\* C24: GenerateResponse asks for the completion once, then for the embedding
\* of the completion text once; after a failed completion no embedding is
\* requested; a failed call returns an error and no fragment; a successful
\* one returns a fragment with the actor ID of the engine, the given
\* session ID, the completion text and the embedding.
C24_CompletionThenEmbedding ==
    /\ genPc # "idle" =>
          /\ Len(llmCalls) \in {1, 2}
          /\ llmCalls[1].fn = "GenerateCompletion"
          /\ Len(llmCalls) = 2 =>
                (llmCalls[2].fn = "EmbedText" /\ llmCalls[2].text = genContent
                   /\ genContent[2] # Nil /\ genPc = "returned")
    /\ genPc = "embedding" => Len(llmCalls) = 1
    /\ genPc = "returned" =>
          /\ (genRet.err # NoError) = (genRet.fragment = NoFragment)
          /\ genRet.err.kind = "failed to generate completion" => Len(llmCalls) = 1
          /\ genRet.err = NoError =>
                /\ Len(llmCalls) = 2
                /\ genRet.fragment.ActorID = EngineID
                /\ genRet.fragment.SessionID = <<"sessionID", genSession>>
                /\ genRet.fragment.Content = genContent
                /\ genRet.fragment.Embedding \in
                      { NewVector(r.vector) : r \in { x \in EmbedResults : ~x.err } }

C24_Witness ==
    /\ genPc = "returned" /\ genRet.err = NoError
    /\ genRet.fragment.Content = <<"content", "t2">>
    /\ genRet.fragment.SessionID = <<"sessionID", "s2">>
    /\ idsIssued = 2

\* the callback of the most recent RegisterEventHandler call of a manager
LastRegistered(m) ==
    IF registered[m] = <<>> THEN Nil ELSE registered[m][Len(registered[m])]

\* C25: triggerEvent invokes the handler registered last for the manager,
\* once, and no handler registered earlier; with no handler in the slot
\* (none was ever registered, or the last registration passed a nil
\* callback) it panics and invokes nothing.
C25_LastHandlerOnlyElsePanic ==
    [][(handled' # handled \/ panicIn' # panicIn) =>
          \E m \in EventManagers : \E eventData \in EventDatas :
             IF LastRegistered(m) # Nil
             THEN /\ handled' = Append(handled, Invocation(m, LastRegistered(m), eventData))
                  /\ panicIn' = Nil
             ELSE handled' = handled /\ panicIn' = m]_vars

C25_Witness ==
    /\ registered["a"] = <<"h1", "h2">>
    /\ Len(handled) = 1 /\ handled[1].manager = "a" /\ handled[1].handler = "h2"
    /\ registered["b"] = <<>> /\ panicIn = "b"

\* the calls that have reached position i of the manager list
Reached(calls, idx, i) == calls - (IF idx # 0 /\ i >= idx THEN 1 ELSE 0)

\* C26: every call of Engine.StartBackgroundProcesses launches one task per
\* registered manager, in which the manager's StartBackgroundProcesses is
\* invoked once, and every call of Engine.StopBackgroundProcesses invokes
\* the StopBackgroundProcesses of every registered manager once; a manager
\* that is not registered is neither started nor stopped.
C26_StartedAndStoppedOncePerCall ==
    /\ \A i \in 1..Len(managers) :
          /\ bgPending[managers[i].id] + bgStarted[managers[i].id]
                = Reached(startCalls, startIdx, i)
          /\ bgStopped[managers[i].id] = Reached(stopCalls, stopIdx, i)
    /\ \A m \in ManagerIDs \ IdsOf(managers) :
          bgPending[m] = 0 /\ bgStarted[m] = 0 /\ bgStopped[m] = 0

C26_Witness ==
    /\ Len(managers) = 2 /\ startCalls = 1 /\ stopCalls = 1
    /\ startIdx = 0 /\ stopIdx = 0
    /\ \A i \in 1..2 : bgStarted[managers[i].id] = 1 /\ bgStopped[managers[i].id] = 1

\* the managers the loop of executeManagersInOrder invokes, in order
Invoked == SelectSeq(postOrder, LAMBDA x : x \in IdsOf(managers))

\* C27: the response is handed to the store in one step only, the one that
\* follows the successful return of the last manager of the resolved order,
\* and once; a PostProcess that returns nil has stored it, a PostProcess
\* that returns a resolution error or a manager error has not.
C27_ResponsePersistedOnceAfterLastManager ==
    [][/\ ResponseUpserts' # ResponseUpserts =>
             /\ postPc = "running" /\ postPc' = "returned"
             /\ postCalls = Invoked /\ Len(postRes) = Len(postCalls)
             /\ \A k \in 1..Len(postRes) : postRes[k] = NoError
             /\ ResponseUpserts = <<>> /\ Len(ResponseUpserts') = 1
             /\ ResponseUpserts'[1].frag = ResponseFragment
       /\ (postPc # "returned" /\ postPc' = "returned") =>
             /\ postResult' = NoError =>
                   (Len(ResponseUpserts') = 1 /\ ~ResponseUpserts'[1].failed)
             /\ postResult'.kind \in ResolutionKinds \cup {"manager actions"} =>
                   ResponseUpserts' = <<>>
      ]_vars

C27_Witness ==
    /\ postPc = "returned" /\ postResult = NoError
    /\ managerOrder = <<"b", "a">> /\ postCalls = <<"b", "a">>
    /\ Len(ResponseUpserts) = 1

\* the entries that managers outside a data race handed to the State are there
WritesKept ==
    \A i \in 1..Len(managers) : i \notin raced =>
        /\ <<"managerData", managers[i].id, managers[i].id>> \in written =>
              (managers[i].id \in DOMAIN managerData
                 /\ managerData[managers[i].id] = managers[i].id)
        /\ <<"customData", "platform", managers[i].id>> \in written =>
              "platform" \in DOMAIN customData

\* C28: when every manager's Process succeeded and the Upsert of the input
\* fails, Process returns the store error and undoes nothing: the step that
\* returns leaves the manager data, the custom data and State.Input as they
\* were, State.Input being the enriched copy.
C28_StoreFailureRollsNothingBack ==
    [][(procPc = "running" /\ procPc' = "returned" /\ InputUpserts' # <<>>
          /\ InputUpserts'[Len(InputUpserts')].failed) =>
             /\ procResult' = Err("store input", Nil, Nil)
             /\ AllProcessOk
             /\ UNCHANGED <<managerData, customData, sInput>>
             /\ sInput' = createFragmentCopy(InputFragment, procLookups.actor.val,
                                             procLookups.session.val)
             /\ WritesKept'
      ]_vars

C28_Witness ==
    /\ procPc = "returned" /\ procResult = Err("store input", Nil, Nil)
    /\ Len(managers) = 2 /\ raced = {}
    /\ DOMAIN managerData # {} /\ DOMAIN customData # {}
    /\ sInput.Actor = "found"

\* a step of cache c that completes a Set (a sweep holds the lock while it
\* removes, so a step inside a sweep is none)
SetStep(c) ==
    /\ call'.op = "Set" /\ call'.cache = c /\ cSweeper[c] # "sweep"
    /\ (call' # call \/ cItems'[c] # cItems[c] \/ evicted' # evicted)

\* the entries of minimal expiration
Earliest(items) ==
    { k \in DOMAIN items : \A j \in DOMAIN items : ~(items[j].Expiration < items[k].Expiration) }

SetEvictsOneOf(c, victims) ==
    /\ evicted' = evicted + 1
    /\ \E victim \in victims :
          cItems'[c] = MapSet(MapRemove(cItems[c], victim), call'.key, cItems'[c][call'.key])

SetEvictsNone(c) ==
    /\ evicted' = evicted
    /\ cItems'[c] = MapSet(cItems[c], call'.key, cItems'[c][call'.key])

C30_SetStampsNowPlusTTL ==
    [][\A c \in Caches :
         /\ SetStep(c) =>
               /\ call'.key \in DOMAIN cItems'[c]
               /\ cItems'[c][call'.key] = CacheEntry(call'.value, now + cTTL[c])
         /\ \A k \in DOMAIN cItems[c] \cap DOMAIN cItems'[c] :
               cItems'[c][k] # cItems[c][k] => (SetStep(c) /\ call'.key = k)]_vars

C30_Witness ==
    /\ call.op = "Set" /\ call.key = "k1" /\ call.value = "v2" /\ cTTL["A"] = 2 /\ now = 2
    /\ cItems["A"]["k1"] = CacheEntry("v2", 4)
    /\ "k2" \in DOMAIN cItems["A"] /\ cItems["A"]["k2"].Expiration = 2

\* ------------------------------------------------------------------------
\* C31: AddManager validates the new manager against the managers registered
\* at the time of the call: it is rejected exactly when its identifier is
\* already registered or one of its dependencies is not; a rejected call
\* leaves the manager list and the configured order as they were, an
\* accepted one leaves the order as it was and appends the manager at the
\* end of the list, so the default execution order (no explicit order) is
\* the former default order followed by the new identifier.
\* ------------------------------------------------------------------------
AddStep == ePhase = "ready" /\ regOp'.op = "AddManager"

C31_AddManagerAppendsOrLeavesUnchanged ==
    [][ AddStep =>
          /\ managerOrder' = managerOrder
          /\ (regOp'.res # NoError) <=> (regOp'.dup # {} \/ regOp'.missing)
          /\ IF regOp'.res # NoError
             THEN managers' = managers
             ELSE /\ Len(managers') = Len(managers) + 1
                  /\ SubSeq(managers', 1, Len(managers)) = managers
                  /\ ExecutionOrder(managers', <<>>) =
                        Append(ExecutionOrder(managers, <<>>), managers'[Len(managers')].id) ]_vars

\* AddManager accepted a manager that depends on the one registered before it;
\* no order is configured
C31_Witness ==
    /\ ePhase = "ready" /\ regOp.op = "AddManager" /\ regOp.res = NoError
    /\ managerOrder = <<>>
    /\ managers = <<Mgr("b", <<>>), Mgr("a", <<"b">>)>>

\* ------------------------------------------------------------------------
\* C32: whatever registrations were accepted or rejected so far, the managers
\* the engine holds have pairwise distinct identifiers, and every dependency
\* a held manager declares is the identifier of a held manager.
\* ------------------------------------------------------------------------
C32_RegisteredDistinctAndClosed ==
    /\ \A i, j \in 1..Len(managers) : i < j => managers[i].id # managers[j].id
    /\ \A i \in 1..Len(managers) : \A k \in 1..Len(managers[i].deps) :
          \E j \in 1..Len(managers) : managers[j].id = managers[i].deps[k]

\* a running engine holding a dependent manager has just rejected an AddManager
C32_Witness ==
    /\ ePhase = "ready" /\ regOp.op = "AddManager" /\ regOp.res # NoError
    /\ Len(managers) >= 2
    /\ \E i \in 1..Len(managers) : managers[i].deps # <<>>

\* ------------------------------------------------------------------------
\* C33: in an engine that New returned, every identifier of the configured
\* execution order is the identifier of a registered manager (so the loop of
\* executeManagersInOrder finds every identifier of the order in its map).
\* ------------------------------------------------------------------------
C33_OrderNamesRegisteredManagers ==
    ePhase = "ready" =>
        \A k \in 1..Len(managerOrder) : managerOrder[k] \in IdsOf(managers)

\* ------------------------------------------------------------------------
\* C34 (as stated): once the list was handed to both engines, WithManagers
\* succeeded exactly when every AddManager did, and then the two engines
\* hold the same list of managers.
\* ------------------------------------------------------------------------
C34_PathsAgree ==
    pathPc = "done" =>
        /\ (bulk.err = NoError) <=> (single.err = NoError)
        /\ bulk.err = NoError => bulk.managers = single.managers

\* every dependency of every manager of the list is the identifier of a
\* manager at an earlier position of the list
DepsEarlier(list) ==
    \A i \in 1..Len(list) : \A k \in 1..Len(list[i].deps) :
        \E j \in 1..(i - 1) : list[j].id = list[i].deps[k]

\* C34 (amended): adding the managers one by one succeeds exactly when
\* WithManagers accepts the list and every dependency names a manager earlier
\* in the list; both engines then hold the list itself. When an AddManager
\* fails, engine S keeps the managers accepted before it.
C34_PathsAgreeWhenDepsEarlier ==
    pathPc = "done" =>
        /\ (single.err = NoError) <=> (bulk.err = NoError /\ DepsEarlier(regList))
        /\ single.err = NoError =>
              bulk.managers = regList /\ single.managers = regList
        /\ single.err # NoError =>
              single.managers = SubSeq(regList, 1, singleIdx - 1)

\* both paths accepted a list in which a manager depends on an earlier one
C34_Witness ==
    /\ pathPc = "done" /\ single.err = NoError /\ bulk.err = NoError
    /\ regList = <<Mgr("b", <<>>), Mgr("a", <<"b">>), Mgr("c", <<>>)>>

\* ------------------------------------------------------------------------
\* C35: a cache never holds more entries than its MaxSize, whatever
\* operations ran on it: the Size that GetStats reports is at most MaxSize.
\* ------------------------------------------------------------------------
C35_SizeAtMostMaxSize ==
    \A c \in Caches : cLive[c] => CacheStats(c).Size <= cMaxSize[c]

\* ------------------------------------------------------------------------
\* C36: a Set of a key that is in the entry table replaces the entry of that
\* key and nothing else: the other entries stay, the number of entries stays
\* and the eviction counter stays.
\* ------------------------------------------------------------------------
C36_SetOfPresentKeyOnlyReplaces ==
    [][\A c \in Caches :
          SetStep(c) /\ call'.key \in DOMAIN cItems[c] =>
             /\ DOMAIN cItems'[c] = DOMAIN cItems[c]
             /\ \A k \in DOMAIN cItems[c] \ {call'.key} : cItems'[c][k] = cItems[c][k]
             /\ evicted' = evicted]_vars

\* ------------------------------------------------------------------------
\* C37: every Get adds one to exactly one of hits and misses and leaves the
\* other and the eviction counter; no step lowers a counter; no step other
\* than a Get changes hits or misses; Delete, Clear and Close leave the
\* eviction counter.
\* ------------------------------------------------------------------------
\* a step of a caller's Delete, Clear or Close (the cleanup goroutine can
\* take steps of its own between two calls)
RemovalStep ==
    /\ call'.op \in {"Delete", "Clear", "Close"}
    /\ \/ call' # call
       \/ cCancelled' # cCancelled
       \/ cSweeper[call'.cache] # "sweep" /\ cItems'[call'.cache] # cItems[call'.cache]

C38_NoStopBeforeStartBegan ==
    [][\A m \in ManagerIDs : bgStopped'[m] > bgStopped[m] => bgPending[m] = 0]_vars

\* ------------------------------------------------------------------------
\* C39: a lookup that returns no entity and no error is not a resolution
\* failure. The phase goes on with a nil Actor or Session in the enriched
\* copy, every manager is invoked, and a phase that returns success has
\* persisted a fragment.
\* ------------------------------------------------------------------------
\* the lookups of a phase returned no error and at least one of them no entity
NotFound(lookups) ==
    /\ ~lookups.actor.err /\ ~lookups.session.err
    /\ lookups.actor.val = Nil \/ lookups.session.val = Nil

\* Process, and PostProcess up to the write to the store
NotFoundGoesOn ==
    /\ (procPc # "idle" /\ NotFound(procLookups)) =>
          /\ procResult.kind \notin ResolutionKinds
          /\ sInput = Enriched(InputFragment, procLookups.actor.val, procLookups.session.val)
          /\ Len(mpc) = Len(managers)
          /\ (procPc = "returned" /\ procResult = NoError) =>
                /\ \A i \in 1..Len(managers) : processCalls[i] = 1
                /\ InputUpserts = <<[frag |-> sInput, failed |-> FALSE]>>
    /\ (postPc # "idle" /\ NotFound(postLookups)) =>
          /\ postResult.kind \notin ResolutionKinds
          /\ sOutput = Enriched(ResponseFragment, postLookups.actor.val, postLookups.session.val)
          /\ (postPc = "returned" /\ postResult = NoError) => postCalls = Invoked

\* C39 (as stated): the fragment a successful phase persists is the enriched
\* copy, in PostProcess as in Process: what PostProcess stored carries the
\* Actor and the Session of State.Output.
C39_NotFoundProceedsAndPersistsCopy ==
    /\ NotFoundGoesOn
    /\ (postPc = "returned" /\ postResult = NoError /\ NotFound(postLookups)) =>
          /\ Len(ResponseUpserts) = 1 /\ ~ResponseUpserts[1].failed
          /\ ResponseUpserts[1].frag.Actor = sOutput.Actor
          /\ ResponseUpserts[1].frag.Session = sOutput.Session

\* C39 (amended): Process persists the enriched copy; PostProcess persists
\* the response fragment it was given, and the enriched copy with the nil
\* reference stays in State.Output.
C39_NotFoundProceedsAndPersists ==
    /\ NotFoundGoesOn
    /\ (postPc = "returned" /\ postResult = NoError /\ NotFound(postLookups)) =>
          /\ ResponseUpserts = <<[frag |-> ResponseFragment, failed |-> FALSE]>>
          /\ sOutput.ref = <<"copy", ResponseFragment.ref>>

\* both phases succeeded, the actor of the input and the session of the
\* response were not found
C39_Witness ==
    /\ procPc = "returned" /\ procResult = NoError
    /\ postPc = "returned" /\ postResult = NoError
    /\ Len(managers) = 2
    /\ procLookups.actor = Lookup(Nil, FALSE) /\ procLookups.session = Lookup("found", FALSE)
    /\ postLookups.actor = Lookup("found", FALSE) /\ postLookups.session = Lookup(Nil, FALSE)
    /\ sInput.Actor = Nil /\ sOutput.Session = Nil
    /\ Len(upserts) = 2

\* ------------------------------------------------------------------------
\* C40: in the messages Compose returns, a name a template refers to stands
\* for the custom-data entry of that name if there is one; else for the
\* value collected under that name with WithManagerData if there is one;
\* else for the exported State field of that name; and for no value when
\* none of the three binds it, whether or not the State's manager data holds
\* an entry of that name that was never collected.
\* ------------------------------------------------------------------------
C40_BindingPrecedence ==
    (call.op = "Compose" /\ call.ret.err = NoError) =>
        \A i \in 1..Len(pbSections) :
            LET t == pbSections[i].Template
                v == call.ret.messages[i].Content[2]
                custom == t.name \in DOMAIN customData
                collected == t.name \in DOMAIN pbStateData
                field == t.name \in DOMAIN FieldMap(StateRec)
            IN  t.kind \in {"ref", "call", "field"} =>
                  /\ custom => v = customData[t.name]
                  /\ (~custom /\ collected) => v = pbStateData[t.name]
                  /\ (~custom /\ ~collected /\ field) => v = StateRec[t.name]
                  /\ (~custom /\ ~collected /\ ~field) => v = NoValue

\* "Actor" is bound by all three sources and "a" is in the manager data but
\* was not collected: the two sections render the custom value and no value
C40_Witness ==
    /\ call.op = "Compose" /\ call.ret.err = NoError
    /\ "Actor" \in DOMAIN customData /\ "Actor" \in DOMAIN pbStateData /\ sActor = "actor1"
    /\ "a" \in DOMAIN managerData /\ "a" \notin DOMAIN pbStateData
    /\ Len(call.ret.messages) = 2
    /\ call.ret.messages[1].Content = <<"upper", "c1">>
    /\ call.ret.messages[2].Content = <<"value", NoValue>>

====
